---- MODULE Spec2Model ----
(***************************************************************************)
(* Pedestrian detection pipeline: post-processing filter chain, detector   *)
(* initialisation protocol, frame sampler and the run() orchestration.     *)
(*                                                                         *)
(* Numeric conventions.  Confidences, thresholds and aspect ratios are     *)
(* floats in the program; here they are integers in hundredths (0.5 is     *)
(* 50, 3.5 is 350).  A ratio test  lo <= h/w <= hi  is evaluated by        *)
(* cross-multiplication, an IoU test  inter/union > t  likewise, so no     *)
(* rounding enters the comparisons.                                        *)
(***************************************************************************)
EXTENDS Integers, Sequences, FiniteSets, TLC

VARIABLES
    input,      \* Postprocessor.process: the argument list `detections`
    out,        \* Postprocessor.process: the returned list
    ppc,        \* "ready" before the call, "done" after it returned
    hog,        \* HOGDetector._hog: "None" until initialize() ran
    enable_multi_pass,  \* DetectionConfig.enable_multi_pass of the run
    oracleLog,  \* parameter sets of the detectMultiScale calls made so far
    oracleAnswers,  \* what the oracle answered to the calls of the latest detect()
    detStatus,  \* outcome of the latest detect(): "none", "RuntimeError", "returned",
                \* "raised" (cut short by an exception)
    detOut,     \* list returned by the latest successful detect()
    nDetect,    \* number of detect() calls made
    nInit,      \* number of initialize() calls made
    sampler,    \* FrameSampler fields and the files it wrote
    nCalls,     \* number of FrameSampler.process calls (the frame number)
    nEmpty,     \* calls whose detection list was empty
    nOverride,  \* calls in which high_confidence evaluated to True
    last,       \* latest FrameSampler.process call: detections given, saved or not
    pc,         \* DetectionPipeline.run: the statement to execute next
    config,     \* PipelineConfig flags: save_output, enable_reporting, enable_frame_sampling
    capture,    \* VideoSource._capture: "None", "open", or "closed" (object not opened)
    framesLeft, \* frames the stream can still deliver
    writer,     \* Visualizer._writer: "None", "open", or "released" (object released)
    written,    \* frames written to the output video
    frame_count,    \* _process_frames: frame_count
    frame,      \* _process_frames: shape <<width, height>> of the local `frame`
    scale_factor,   \* Preprocessor._scale_factor as <<numerator, denominator>>
    processed,  \* shape of the frame the latest Preprocessor.process returned
    nProcess,   \* number of Preprocessor.process calls made
    frameDets,  \* _process_frames: the local list `detections`
    fps,        \* FPSCounter: number of ticks and the current fps value
    reporter,   \* ReportGenerator: started, frame_stats, number of reports generated
    raised,     \* the exception run() ended with, "none" when there is none
    raisedIn,   \* where it was raised: the statement of run(), "__enter__", "__exit__"
    everOpened, \* the source's capture was opened during this run
    steps,      \* calls made so far in the current iteration of the frame loop
    delivered,  \* number of frames read_frame() returned
    nRecord,    \* number of ReportGenerator.record_frame calls made
    roundtrip   \* a Detection, a factor, and the results of scale(f) and scale(1/f)

postVars == <<input, out, ppc>>
detVars == <<hog, enable_multi_pass, oracleLog, oracleAnswers, detStatus, detOut, nDetect,
             nInit>>
samplerVars == <<sampler, nCalls, nEmpty, nOverride, last>>
pipeVars == <<pc, config, capture, framesLeft, writer, written, frame_count, frame,
              scale_factor, processed, nProcess, frameDets, fps, reporter, raised, raisedIn,
              everOpened, steps, delivered, nRecord>>
vars == <<input, out, ppc, hog, enable_multi_pass, oracleLog, oracleAnswers, detStatus, detOut,
          nDetect, nInit, sampler, nCalls, nEmpty, nOverride, last, pc, config, capture,
          framesLeft, writer, written, frame_count, frame, scale_factor, processed,
          nProcess, frameDets, fps, reporter, raised, raisedIn, everOpened, steps, delivered,
          nRecord, roundtrip>>

-----------------------------------------------------------------------------
(* DetectionConfig defaults (config/settings.py), in hundredths where float *)

confidence_threshold == 50
nms_threshold == 40
max_detection_w == 200
max_detection_h == 400
min_aspect_ratio == 130
max_aspect_ratio == 350

min_detection_w == 40
min_detection_h == 80
win_stride == <<8, 8>>
padding == <<8, 8>>
scale == 103
hit_threshold == 50
second_pass_win_stride == <<4, 4>>
second_pass_padding == <<16, 16>>
second_pass_scale == 102
second_pass_hit_threshold == 30

target_width == 640

(* Bound on the length of the lists handed to Postprocessor.process *)
MaxLen == 3

(* Bounds of the detector runs: detect() and initialize() calls, and the   *)
(* candidates the oracle answers to the calls of one detect()              *)
MaxDetectCalls == 2
MaxInitCalls == 2
MaxCands == 2

(* Bounds of the sampler runs: calls with arbitrary frames, and calls of a *)
(* run in which every frame carries a detection below the override        *)
MaxFreeCalls == 4
MaxPlainCalls == 25

(* Bound of the pipeline runs: frames the video source holds *)
MaxFrames == 2

(* Bound of the scaling round trips: the largest x coordinate tried *)
MaxCoord == 12

(* Bound of the preprocessor runs: Preprocessor.process calls *)
MaxProcessCalls == 3

(* Bounds of the report generator runs: record_frame and generate calls *)
MaxRecordCalls == 2
MaxGenerateCalls == 2

-----------------------------------------------------------------------------
(* Detection dataclass *)

Detection(x, y, w, h, c) == [x |-> x, y |-> y, w |-> w, h |-> h, confidence |-> c]

Max2(a, b) == IF a >= b THEN a ELSE b
Min2(a, b) == IF a <= b THEN a ELSE b

(* cv::Rect_::area and operator& as used by jaccardDistance *)
Area(d) == d.w * d.h

InterArea(a, b) ==
    LET x1 == Max2(a.x, b.x)
        y1 == Max2(a.y, b.y)
        iw == Min2(a.x + a.w, b.x + b.w) - x1
        ih == Min2(a.y + a.h, b.y + b.h) - y1
    IN  IF iw <= 0 \/ ih <= 0 THEN 0 ELSE iw * ih

UnionArea(a, b) == Area(a) + Area(b) - InterArea(a, b)

(* rectOverlap(a, b) > t, with t in hundredths.  jaccardDistance returns 0 *)
(* (overlap 1) when both areas are empty.                                  *)
OverlapExceeds(a, b, t) ==
    IF Area(a) + Area(b) <= 0
    THEN 100 > t
    ELSE InterArea(a, b) * 100 > t * UnionArea(a, b)

-----------------------------------------------------------------------------
(* Postprocessor *)

(* ratio = det.h / det.w compared with a bound r in hundredths, for        *)
(* w # 0: the quotient of two integers of either sign, so the comparison   *)
(* of 100 * h with r * w turns round when w is negative.                   *)
ratio_at_least(h, w, r) == IF w > 0 THEN r * w <= 100 * h ELSE r * w >= 100 * h

ratio_at_most(h, w, r) == IF w > 0 THEN 100 * h <= r * w ELSE 100 * h >= r * w

_is_valid_detection_no_max(det) ==
    IF det.w = 0 THEN FALSE
    ELSE /\ ratio_at_least(det.h, det.w, min_aspect_ratio)
         /\ ratio_at_most(det.h, det.w, max_aspect_ratio)

_is_valid_detection(det) ==
    IF det.w > max_detection_w \/ det.h > max_detection_h THEN FALSE
    ELSE IF det.w = 0 THEN FALSE
    ELSE /\ ratio_at_least(det.h, det.w, min_aspect_ratio)
         /\ ratio_at_most(det.h, det.w, max_aspect_ratio)

(* GetMaxScoreIndex: indices whose score is > score_threshold, stably      *)
(* sorted by score descending.  InsertDesc puts index i behind every index *)
(* already present whose score is >= its own.                              *)
RECURSIVE InsertDesc_unstable(_, _, _)
InsertDesc_unstable(order, i, dets) ==
    IF order = <<>> THEN <<i>>
    ELSE IF dets[Head(order)].confidence > dets[i].confidence
         THEN <<Head(order)>> \o InsertDesc_unstable(Tail(order), i, dets)
         ELSE <<i>> \o order

RECURSIVE InsertDesc(_, _, _)
InsertDesc(order, i, dets) ==
    IF order = <<>> THEN <<i>>
    ELSE IF dets[Head(order)].confidence >= dets[i].confidence
         THEN <<Head(order)>> \o InsertDesc(Tail(order), i, dets)
         ELSE <<i>> \o order

RECURSIVE GetMaxScoreIndexFrom(_, _, _)
GetMaxScoreIndexFrom(dets, threshold, n) ==
    IF n = 0 THEN <<>>
    ELSE LET rest == GetMaxScoreIndexFrom(dets, threshold, n - 1)
         IN  IF dets[n].confidence > threshold
             THEN InsertDesc(rest, n, dets)
             ELSE rest

GetMaxScoreIndex(dets, threshold) == GetMaxScoreIndexFrom(dets, threshold, Len(dets))

(* NMSFast_: walk the sorted candidates, keep one when its overlap with    *)
(* every index kept so far is <= nms_threshold.                            *)
RECURSIVE NMSFastFirstOnly(_, _, _, _)
NMSFastFirstOnly(order, kept, dets, t) ==
    IF order = <<>> THEN kept
    ELSE LET idx == Head(order)
             keep == \A k \in 1..Len(kept) :
                        k = 1 => ~OverlapExceeds(dets[idx], dets[kept[k]], t)
         IN  NMSFastFirstOnly(Tail(order), IF keep THEN Append(kept, idx) ELSE kept, dets, t)

RECURSIVE NMSFast(_, _, _, _)
NMSFast(order, kept, dets, t) ==
    IF order = <<>> THEN kept
    ELSE LET idx == Head(order)
             keep == \A k \in 1..Len(kept) :
                        ~OverlapExceeds(dets[idx], dets[kept[k]], t)
         IN  NMSFast(Tail(order), IF keep THEN Append(kept, idx) ELSE kept, dets, t)

(* cv2.dnn.NMSBoxes(bboxes, scores, score_threshold, nms_threshold) *)
NMSBoxes(dets, score_threshold, t) ==
    NMSFast(GetMaxScoreIndex(dets, score_threshold), <<>>, dets, t)

_apply_nms_rebuilt(detections) ==
    LET indices == NMSBoxes(detections, confidence_threshold, nms_threshold)
    IN  [k \in 1..Len(indices) |->
            [detections[indices[k]] EXCEPT
                !.confidence = (detections[indices[k]].confidence \div 100) * 100]]

_apply_nms(detections) ==
    LET indices == NMSBoxes(detections, confidence_threshold, nms_threshold)
    IN  IF Len(indices) = 0 THEN <<>>
        ELSE [k \in 1..Len(indices) |-> detections[indices[k]]]

ConfidenceGate(d) == d.confidence >= confidence_threshold

process_gates_after_nms(detections) ==
    IF detections = <<>> THEN <<>>
    ELSE LET kept == _apply_nms(detections)
             filtered1 == SelectSeq(kept, ConfidenceGate)
         IN  SelectSeq(filtered1, _is_valid_detection)

process(detections) ==
    IF detections = <<>> THEN <<>>
    ELSE LET filtered1 == SelectSeq(detections, ConfidenceGate)
             filtered == SelectSeq(filtered1, _is_valid_detection)
         IN  IF filtered = <<>> THEN <<>> ELSE _apply_nms(filtered)

-----------------------------------------------------------------------------
(* HOGDetector *)

PrimaryParams ==
    [winStride |-> win_stride, padding |-> padding, scale |-> scale, hitThreshold |-> 0]

SecondParams ==
    [winStride |-> second_pass_win_stride, padding |-> second_pass_padding,
     scale |-> second_pass_scale, hitThreshold |-> second_pass_hit_threshold]

PassesMinSize_width_only(c) == ~(c.w < min_detection_w)

PassesMinSize(c) == ~(c.w < min_detection_w) /\ ~(c.h < min_detection_h)

(* _single_pass on the (region, weight) pairs the oracle returned *)
_single_pass(cands) == SelectSeq(cands, PassesMinSize)

(* detect(frame): h is self._hog, r1 and r2 what the oracle answers to the  *)
(* first and the second call.  Result: status, returned list, the argument *)
(* sets of the oracle calls made and the answers they got.                 *)
detect_unguarded(h, multi, r1, r2) ==
    [status  |-> "returned",
     out     |-> _single_pass(r1) \o (IF multi THEN _single_pass(r2) ELSE <<>>),
     calls   |-> <<PrimaryParams>> \o (IF multi THEN <<SecondParams>> ELSE <<>>),
     answers |-> <<r1>> \o (IF multi THEN <<r2>> ELSE <<>>)]

detect_second_pass_first(h, multi, r1, r2) ==
    IF h = "None"
    THEN [status |-> "RuntimeError", out |-> <<>>, calls |-> <<>>, answers |-> <<>>]
    ELSE [status  |-> "returned",
          out     |-> (IF multi THEN _single_pass(r2) ELSE <<>>) \o _single_pass(r1),
          calls   |-> <<PrimaryParams>> \o (IF multi THEN <<SecondParams>> ELSE <<>>),
          answers |-> <<r1>> \o (IF multi THEN <<r2>> ELSE <<>>)]

detect(h, multi, r1, r2) ==
    IF h = "None"
    THEN [status |-> "RuntimeError", out |-> <<>>, calls |-> <<>>, answers |-> <<>>]
    ELSE [status  |-> "returned",
          out     |-> _single_pass(r1) \o (IF multi THEN _single_pass(r2) ELSE <<>>),
          calls   |-> <<PrimaryParams>> \o (IF multi THEN <<SecondParams>> ELSE <<>>),
          answers |-> <<r1>> \o (IF multi THEN <<r2>> ELSE <<>>)]

(* FrameSampler operations *)

FrameSampler(sample_interval, min_confidence_to_save, save_raw) ==
    [sample_interval_arg |-> sample_interval,
     sample_interval |-> Max2(1, sample_interval),
     min_confidence |-> min_confidence_to_save,
     save_raw |-> save_raw,
     frames_with_detections |-> 0,
     total_saved |-> 0,
     files |-> {}]

RECURSIVE MaxConfidence(_)
MaxConfidence(detections) ==
    IF Len(detections) = 1 THEN detections[1].confidence
    ELSE Max2(detections[1].confidence, MaxConfidence(Tail(detections)))

(* _save_frame: frame_<frame_number>_<len(detections)>det.jpg, and the same *)
(* name under raw/ when save_raw is set                                     *)
_save_frame(s, frame_number, detections) ==
    [s EXCEPT
        !.files = @ \cup { <<"annotated", frame_number, Len(detections)>> }
                    \cup (IF s.save_raw
                          THEN { <<"raw", frame_number, Len(detections)>> }
                          ELSE {}),
        !.total_saved = @ + 1]

high_confidence(s, detections) ==
    /\ MaxConfidence(detections) >= s.min_confidence
    /\ s.min_confidence > 0

FrameSampler_process_count_after(s, frame_number, detections) ==
    IF detections = <<>> THEN s
    ELSE LET should_save == \/ high_confidence(s, detections)
                            \/ s.frames_with_detections % s.sample_interval = 0
             s1 == [s EXCEPT !.frames_with_detections = @ + 1]
         IN  IF should_save THEN _save_frame(s1, frame_number, detections) ELSE s1

FrameSampler_process_counts_empty(s, frame_number, detections) ==
    IF detections = <<>> THEN [s EXCEPT !.frames_with_detections = @ + 1]
    ELSE LET s1 == [s EXCEPT !.frames_with_detections = @ + 1]
             should_save == \/ high_confidence(s1, detections)
                            \/ s1.frames_with_detections % s1.sample_interval = 0
         IN  IF should_save THEN _save_frame(s1, frame_number, detections) ELSE s1

FrameSampler_process(s, frame_number, detections) ==
    IF detections = <<>> THEN s
    ELSE LET s1 == [s EXCEPT !.frames_with_detections = @ + 1]
             should_save == \/ high_confidence(s1, detections)
                            \/ s1.frames_with_detections % s1.sample_interval = 0
         IN  IF should_save THEN _save_frame(s1, frame_number, detections) ELSE s1

(* Exceptions.  A KeyboardInterrupt can arrive between any two operations;  *)
(* any other exception comes out of a call that fails.                      *)
AnyException == {"Exception", "KeyboardInterrupt"}

OnlyInterrupt == {"KeyboardInterrupt"}

(* FrameSampler.process cut short by an exception: the sampler it leaves   *)
(* and the exceptions that can leave it there.  The counter is incremented *)
(* first; cv2.imwrite writes the annotated file, then the raw one;          *)
(* total_saved is incremented last.                                        *)
FrameSampler_process_partial(s, frame_number, detections) ==
    IF detections = <<>> THEN {}
    ELSE LET s1 == [s EXCEPT !.frames_with_detections = @ + 1]
             should_save == \/ high_confidence(s1, detections)
                            \/ s1.frames_with_detections % s1.sample_interval = 0
             annotated == [s1 EXCEPT !.files =
                              @ \cup { <<"annotated", frame_number, Len(detections)>> }]
             raw == [annotated EXCEPT !.files =
                        @ \cup { <<"raw", frame_number, Len(detections)>> }]
         IN  { [sampler |-> s1,
                kinds |-> IF should_save THEN AnyException ELSE OnlyInterrupt] }
             \cup (IF should_save
                   THEN { [sampler |-> annotated,
                           kinds |-> IF s.save_raw THEN AnyException ELSE OnlyInterrupt] }
                   ELSE {})
             \cup (IF should_save /\ s.save_raw
                   THEN { [sampler |-> raw, kinds |-> OnlyInterrupt] }
                   ELSE {})
             \cup { [sampler |-> FrameSampler_process(s, frame_number, detections),
                     kinds |-> OnlyInterrupt] }

-----------------------------------------------------------------------------
(* Components that take no part in a run stay in these states *)

IdlePost ==
    /\ input = <<>>
    /\ out = <<>>
    /\ ppc = "idle"

IdleDet ==
    /\ hog = "None"
    /\ enable_multi_pass = FALSE
    /\ oracleLog = <<>>
    /\ oracleAnswers = <<>>
    /\ detStatus = "none"
    /\ detOut = <<>>
    /\ nDetect = 0
    /\ nInit = 0

(* One detection whose confidence is below every positive override threshold *)
UniformFrame == <<Detection(0, 0, 50, 100, 100)>>

NoCall == [n |-> 0, max_conf |-> 0, saved |-> FALSE]

IdleSampler ==
    /\ sampler = FrameSampler(10, 150, FALSE)
    /\ nCalls = 0
    /\ nEmpty = 0
    /\ nOverride = 0
    /\ last = NoCall

(* no frame is held: read_frame() returned None, or was not called yet *)
NoFrame == <<0, 0>>

(* no Detection.scale call is under consideration *)
IdleScale == roundtrip = [pc |-> "idle"]

(* no report was produced yet; cut_off: detection_report.json was opened    *)
(* for writing and holds only a prefix of the report's JSON text            *)
NoReport == [written |-> FALSE, cut_off |-> FALSE]

(* json.dump did not run to its end inside open(output_path, "w") *)
CutOffReport == [written |-> FALSE, cut_off |-> TRUE]

NewReporter ==
    [start_time_set |-> FALSE, frame_stats |-> <<>>, all_confidences |-> <<>>,
     all_fps |-> <<>>, generated |-> 0, report |-> NoReport]

IdlePipe ==
    /\ pc = "idle"
    /\ config = [save_output |-> FALSE, enable_reporting |-> FALSE,
                 enable_frame_sampling |-> FALSE]
    /\ capture = "None"
    /\ framesLeft = 0
    /\ writer = "None"
    /\ written = 0
    /\ frame_count = 0
    /\ frame = NoFrame
    /\ scale_factor = <<1, 1>>
    /\ processed = NoFrame
    /\ nProcess = 0
    /\ frameDets = <<>>
    /\ fps = [ticks |-> 0, value |-> 0]
    /\ reporter = NewReporter
    /\ raised = "none"
    /\ raisedIn = "none"
    /\ everOpened = FALSE
    /\ steps = <<>>
    /\ delivered = 0
    /\ nRecord = 0

-----------------------------------------------------------------------------
(* Detector runs *)

OracleCandidates ==
    { Detection(0, 0, 64, 128, 90),
      Detection(10, 10, 40, 80, 60),     \* exactly the minimum size
      Detection(0, 0, 39, 128, 90),      \* too narrow
      Detection(0, 0, 64, 79, 90) }      \* too short

OracleLists(n) == [1..n -> OracleCandidates]

InitDet ==
    /\ hog = "None"
    /\ enable_multi_pass \in BOOLEAN
    /\ oracleLog = <<>>
    /\ oracleAnswers = <<>>
    /\ detStatus = "none"
    /\ detOut = <<>>
    /\ nDetect = 0
    /\ nInit = 0
    /\ IdlePost
    /\ IdleSampler
    /\ IdlePipe
    /\ IdleScale

Initialize ==
    /\ nInit < MaxInitCalls
    /\ hog' = "HOGDescriptor"
    /\ nInit' = nInit + 1
    /\ UNCHANGED <<enable_multi_pass, oracleLog, oracleAnswers, detStatus, detOut, nDetect>>
    /\ UNCHANGED <<postVars, samplerVars, pipeVars, roundtrip>>

Detect ==
    /\ nDetect < MaxDetectCalls
    /\ \E n1 \in 0..MaxCands : \E n2 \in 0..(MaxCands - n1) :
       \E r1 \in OracleLists(n1), r2 \in OracleLists(n2) :
        /\ (hog = "None" => r1 = <<>>)
        /\ ((hog = "None" \/ ~enable_multi_pass) => r2 = <<>>)
        /\ LET res == detect(hog, enable_multi_pass, r1, r2)
           IN  /\ detStatus' = res.status
               /\ detOut' = res.out
               /\ oracleLog' = oracleLog \o res.calls
               /\ oracleAnswers' = res.answers
    /\ nDetect' = nDetect + 1
    /\ UNCHANGED <<hog, enable_multi_pass, nInit>>
    /\ UNCHANGED <<postVars, samplerVars, pipeVars, roundtrip>>

NextDet == Initialize \/ Detect

SpecDet == InitDet /\ [][NextDet]_vars

-----------------------------------------------------------------------------
(* Sampler runs *)

SampleIntervals == {-1, 0, 1, 2, 3, 10}
OverrideThresholds == {0, 150}

SamplerFrames ==
    { <<>>,
      <<Detection(0, 0, 50, 100, 100)>>,
      <<Detection(0, 0, 50, 100, 150)>>,
      <<Detection(0, 0, 50, 100, 100), Detection(300, 0, 50, 100, 200)>> }

InitSampler ==
    /\ \E si \in SampleIntervals, mc \in OverrideThresholds, raw \in BOOLEAN :
          sampler = FrameSampler(si, mc, raw)
    /\ nCalls = 0
    /\ nEmpty = 0
    /\ nOverride = 0
    /\ last = NoCall
    /\ IdlePost
    /\ IdleDet
    /\ IdlePipe
    /\ IdleScale

PlainFrame(s, detections) == detections # <<>> /\ ~high_confidence(s, detections)

SamplerProcess ==
    \E detections \in SamplerFrames :
        /\ \/ nCalls < MaxFreeCalls
           \/ /\ nCalls < MaxPlainCalls
              /\ nEmpty = 0
              /\ nOverride = 0
              /\ detections = UniformFrame
              /\ PlainFrame(sampler, detections)
        /\ sampler' = FrameSampler_process(sampler, nCalls + 1, detections)
        /\ nCalls' = nCalls + 1
        /\ nEmpty' = nEmpty + (IF detections = <<>> THEN 1 ELSE 0)
        /\ nOverride' = nOverride +
              (IF detections # <<>> /\ high_confidence(sampler, detections) THEN 1 ELSE 0)
        /\ last' = [n |-> Len(detections),
                    max_conf |-> IF detections = <<>> THEN 0 ELSE MaxConfidence(detections),
                    saved |-> sampler'.total_saved # sampler.total_saved]
        /\ UNCHANGED <<postVars, detVars, pipeVars, roundtrip>>

NextSampler == SamplerProcess

SpecSampler == InitSampler /\ [][NextSampler]_vars

-----------------------------------------------------------------------------
(* Inputs of the post-processing runs: lists of at most MaxLen detections  *)
(* over a set of boxes and confidences that exercise every gate boundary.  *)

Boxes ==
    { <<0, 0, 50, 100>>,     \* plausible pedestrian box
      <<2, 2, 48, 98>>,      \* IoU 0.94 with the box above
      <<0, 0, 70, 100>>,
      <<30, 0, 70, 100>>,    \* IoU exactly 0.40 with <<0,0,70,100>>
      <<300, 0, 50, 100>>,   \* disjoint from all others
      <<0, 0, 0, 100>>,      \* zero width
      <<0, 0, 10, 300>>,     \* aspect ratio 30
      <<0, 0, 250, 400>>,    \* wider than max_detection_size
      <<0, 0, 100, 130>> }   \* aspect ratio exactly 1.30

Confidences == {40, 50, 90}

(* Detection is a plain dataclass of ints: nothing keeps w and h positive *)
NegativeSizeDetections ==
    { Detection(0, 0, -10, -20, 90),     \* ratio 2.0 with a negative width
      Detection(40, 90, -10, -20, 95),   \* the same size, laid over <<0,0,50,100>>
      Detection(0, 0, -50, 100, 90),     \* ratio -2.0
      Detection(0, 0, 50, -100, 90) }    \* ratio -2.0

InputDetections ==
    { Detection(b[1], b[2], b[3], b[4], c) : b \in Boxes, c \in Confidences }
    \cup { Detection(2, 2, 48, 98, 95), Detection(0, 0, 10, 300, 1000),
           Detection(0, 0, 80, 100, 95) }   \* aspect ratio 1.25, IoU 0.875 with <<0,0,70,100>>
    \cup NegativeSizeDetections

InitPost ==
    /\ \E n \in 0..MaxLen : input \in [1..n -> InputDetections]
    /\ out = <<>>
    /\ ppc = "ready"
    /\ IdleDet
    /\ IdleSampler
    /\ IdlePipe
    /\ IdleScale

Process ==
    /\ ppc = "ready"
    /\ out' = process(input)
    /\ ppc' = "done"
    /\ UNCHANGED <<input, detVars, samplerVars, pipeVars, roundtrip>>

(* the list process returned is handed to process once more *)
ProcessAgain ==
    /\ ppc = "done"
    /\ input' = out
    /\ out' = process(out)
    /\ ppc' = "again"
    /\ UNCHANGED <<detVars, samplerVars, pipeVars, roundtrip>>

NextPost == Process \/ ProcessAgain

SpecPost == InitPost /\ [][NextPost]_vars

-----------------------------------------------------------------------------
(* Components driven by DetectionPipeline *)

(* VideoSource: release() drops the capture object, is_opened() *)
release(cap) == IF cap # "None" THEN "None" ELSE cap

is_opened(cap) == cap = "open"

(* VideoSource.__exit__(exc_type, exc_val, exc_tb): release whatever happened *)
__exit__(cap, exc) == release(cap)

(* Visualizer.release_writer *)
release_writer_keeps(w) == w

release_writer(w) == IF w # "None" THEN "None" ELSE w

(* FPSCounter: ticks is the length of the deque of timestamps, which holds  *)
(* window_size of them at most.  tick(): a timestamp is appended; with two  *)
(* timestamps or more and elapsed > 0 the fps becomes v, the quotient       *)
(* (len - 1) / elapsed; otherwise it stays (v = f.value)                    *)
window_size == 30

FPSCounter_tick(f, v) ==
    LET n == Min2(f.ticks + 1, window_size)
    IN  [ticks |-> n, value |-> IF n >= 2 THEN v ELSE f.value]

(* FPSCounter.reset(): the timestamps are cleared, the fps is 0.0 again *)
FPSCounter_reset(f) == [ticks |-> 0, value |-> 0]

(* Double-precision arithmetic on the values the program computes.  A      *)
(* scale factor is the float nearest to a ratio p/q of two small positive  *)
(* integers; it is written <<p, q>>.  With k == 52 - FloorLog2Ratio(p, q)  *)
(* that float is (p * 2^k + float_error(p, q)) / (q * 2^k).                *)

RECURSIVE Pow2(_)
Pow2(n) == IF n = 0 THEN 1 ELSE 2 * Pow2(n - 1)

RECURSIVE FloorLog2(_)
FloorLog2(n) == IF n < 2 THEN 0 ELSE 1 + FloorLog2(n \div 2)

RECURSIVE ShiftsToReach(_, _)
ShiftsToReach(p, q) == IF p >= q THEN 0 ELSE 1 + ShiftsToReach(2 * p, q)

(* t with 2^t <= p/q < 2^(t+1) *)
FloorLog2Ratio(p, q) == IF p >= q THEN FloorLog2(p \div q) ELSE 0 - ShiftsToReach(p, q)

(* (r * 2^i) mod q *)
RECURSIVE DoubleMod(_, _, _)
DoubleMod(r, q, i) == IF i = 0 THEN r ELSE DoubleMod((2 * r) % q, q, i - 1)

(* p / q rounded to nearest, ties to even: the numerator of the error *)
float_error(p, q) ==
    LET k    == 52 - FloorLog2Ratio(p, q)
        prev == DoubleMod(p % q, q, k - 1)
        r    == (2 * prev) % q
        odd  == 2 * prev >= q
        up   == 2 * r > q \/ (2 * r = q /\ odd)
    IN  IF r = 0 THEN 0 ELSE IF up THEN q - r ELSE 0 - r

(* exponent distance between half the gap below the integer n and 2^-k *)
HalfGapShift(n, p, q) ==
    LET L == FloorLog2(n)
    IN  (52 - FloorLog2Ratio(p, q)) + (IF n = Pow2(L) THEN L - 54 ELSE L - 53)

(* int(v / f) for the float f == <<p, q>>: the quotient is rounded to a    *)
(* double before it is truncated, so an exact quotient n comes out as      *)
(* n - 1 when f lies above p/q by enough to round the quotient down.       *)
(* int() truncates toward zero and the division is symmetric in the sign   *)
(* of v, so a negative v gives minus the result of its absolute value.     *)
int_truediv(v, p, q) ==
    LET a == IF v < 0 THEN 0 - v ELSE v
        m == IF (a * q) % p # 0 \/ a = 0 THEN (a * q) \div p
             ELSE LET n  == (a * q) \div p
                      e  == float_error(p, q)
                      ks == HalfGapShift(n, p, q)
                  IN  IF e <= 0 THEN n
                      ELSE IF p * Pow2(IF ks > 0 THEN ks ELSE 0)
                                >= n * e * Pow2(IF ks < 0 THEN 0 - ks ELSE 0)
                           THEN n ELSE n - 1
    IN  IF v < 0 THEN 0 - m ELSE m

(* int(v * f) for the float f == <<p, q>>, truncated toward zero *)
int_mul(v, p, q) ==
    LET a == IF v < 0 THEN 0 - v ELSE v
        m == IF (a * p) % q # 0 \/ a = 0 THEN (a * p) \div q
             ELSE LET n  == (a * p) \div q
                      e  == float_error(p, q)
                      ks == HalfGapShift(n, p, q)
                  IN  IF e >= 0 THEN n
                      ELSE IF a * (0 - e) * Pow2(IF ks < 0 THEN 0 - ks ELSE 0)
                                <= q * Pow2(IF ks > 0 THEN ks ELSE 0)
                           THEN n ELSE n - 1
    IN  IF v < 0 THEN 0 - m ELSE m

(* Preprocessor._resize on a frame of shape <<width, height>>: the scale   *)
(* factor it stores and the shape of the frame it returns                  *)
_resize(shape) ==
    IF shape[1] <= target_width
    THEN [scale_factor |-> <<1, 1>>, shape |-> shape]
    ELSE [scale_factor |-> <<target_width, shape[1]>>,
          shape |-> <<target_width, int_mul(shape[2], target_width, shape[1])>>]

(* Detection.scale(factor): int(v / factor) for each of x, y, w, h *)
Detection_scale_resets_confidence(d, f) ==
    [x |-> int_truediv(d.x, f[1], f[2]),
     y |-> int_truediv(d.y, f[1], f[2]),
     w |-> int_truediv(d.w, f[1], f[2]),
     h |-> int_truediv(d.h, f[1], f[2]),
     confidence |-> 0]

Detection_scale_multiplies(d, f) ==
    [x |-> int_mul(d.x, f[1], f[2]),
     y |-> int_mul(d.y, f[1], f[2]),
     w |-> int_mul(d.w, f[1], f[2]),
     h |-> int_mul(d.h, f[1], f[2]),
     confidence |-> d.confidence]

Detection_scale(d, f) ==
    [x |-> int_truediv(d.x, f[1], f[2]),
     y |-> int_truediv(d.y, f[1], f[2]),
     w |-> int_truediv(d.w, f[1], f[2]),
     h |-> int_truediv(d.h, f[1], f[2]),
     confidence |-> d.confidence]

(* ReportGenerator.record_frame *)
record_frame_keeps_zero_fps(r, frame_number, detection_count, confidences, fps_value) ==
    [r EXCEPT !.frame_stats = Append(@,
                  [frame_number |-> frame_number, detection_count |-> detection_count,
                   confidences |-> confidences, fps |-> fps_value]),
              !.all_confidences = @ \o confidences,
              !.all_fps = Append(@, fps_value)]

record_frame(r, frame_number, detection_count, confidences, fps_value) ==
    [r EXCEPT !.frame_stats = Append(@,
                  [frame_number |-> frame_number, detection_count |-> detection_count,
                   confidences |-> confidences, fps |-> fps_value]),
              !.all_confidences = @ \o confidences,
              !.all_fps = IF fps_value > 0 THEN Append(@, fps_value) ELSE @]

(* record_frame cut short by a KeyboardInterrupt: after the append to     *)
(* _frame_stats, and after the extension of _all_confidences               *)
record_frame_partial(r, frame_number, detection_count, confidences, fps_value) ==
    LET r1 == [r EXCEPT !.frame_stats = Append(@,
                  [frame_number |-> frame_number, detection_count |-> detection_count,
                   confidences |-> confidences, fps |-> fps_value])]
    IN  { r1, [r1 EXCEPT !.all_confidences = @ \o confidences],
          record_frame(r, frame_number, detection_count, confidences, fps_value) }

RECURSIVE SumSeq(_)
SumSeq(values) == IF values = <<>> THEN 0 ELSE Head(values) + SumSeq(Tail(values))

RECURSIVE MinSeq(_)
MinSeq(values) ==
    IF Len(values) = 1 THEN values[1] ELSE Min2(values[1], MinSeq(Tail(values)))

RECURSIVE MaxSeq(_)
MaxSeq(values) ==
    IF Len(values) = 1 THEN values[1] ELSE Max2(values[1], MaxSeq(Tail(values)))

(* Doubles near a ratio S / D of small integers: the double written        *)
(* [S, k, e] over D is (S * 2^k + e) / (D * 2^k); e is the rounding error   *)
(* the value carries, in units of 1 / (D * 2^k).                            *)

(* S / D is an exact power of two *)
IsPow2Ratio(S, D) ==
    LET t == FloorLog2Ratio(S, D)
    IN  IF t >= 0 THEN S = D * Pow2(t) ELSE S * Pow2(0 - t) = D

(* the double nearest to (S * 2^K + E) / (D * 2^K), ties to the even        *)
(* mantissa, as [k, e]                                                      *)
float_round(S, D, K, E) ==
    LET t    == FloorLog2Ratio(S, D) - (IF E < 0 /\ IsPow2Ratio(S, D) THEN 1 ELSE 0)
        k    == 52 - t
        KK   == Max2(K, k)
        EE   == E * Pow2(KK - K)
        g    == Pow2(KK - k)
        m    == D * g
        c    == ((D - DoubleMod(S % D, D, k)) % D) * g
        r    == (EE - c) % m
        down == EE - r
        odd  == ((DoubleMod(S % (2 * D), 2 * D, k) + down \div g) % (2 * D)) \div D = 1
        e    == IF r = 0 THEN EE
                ELSE IF 2 * r < m \/ (2 * r = m /\ ~odd) THEN down
                ELSE down + m
    IN  [k |-> k, e |-> e \div g]

(* the double v / 100 of a value in hundredths *)
float_of(v) ==
    [S |-> v, k |-> 52 - FloorLog2Ratio(v, 100), e |-> float_error(v, 100)]

(* a + b in double precision; 0.0 is written [S |-> 0, k |-> 0, e |-> 0] *)
float_add(a, b) ==
    IF a.S = 0 THEN b
    ELSE IF b.S = 0 THEN a
    ELSE LET K == Max2(a.k, b.k)
             E == a.e * Pow2(K - a.k) + b.e * Pow2(K - b.k)
             x == float_round(a.S + b.S, 100, K, E)
         IN  [S |-> a.S + b.S, k |-> x.k, e |-> x.e]

(* sum(values): the values are added left to right, each addition rounded *)
RECURSIVE float_sum(_, _)
float_sum(values, acc) ==
    IF values = <<>> THEN acc
    ELSE float_sum(Tail(values),
                   float_add(acc, IF Head(values) = 0 THEN [S |-> 0, k |-> 0, e |-> 0]
                                  ELSE float_of(Head(values))))

(* sign of the error of the double sum(values) / len(values) against the   *)
(* exact mean of the values                                                *)
mean_error(values) ==
    LET s == float_sum(values, [S |-> 0, k |-> 0, e |-> 0])
    IN  IF s.S = 0 THEN 0 ELSE float_round(s.S, 100 * Len(values), s.k, s.e).e

(* round(x, 4) in ten-thousandths, for the double x nearest to a / (b *     *)
(* 10000) whose error has the sign of err: the decimal expansion of the    *)
(* double is rounded, so an exact half of the fourth decimal goes up or    *)
(* down with the error, and to the even digit when the double is exact     *)
round4(a, b, err) ==
    LET n == a \div b
        r == a % b
    IN  IF 2 * r > b \/ (2 * r = b /\ (err > 0 \/ (err = 0 /\ n % 2 = 1)))
        THEN n + 1 ELSE n

(* _safe_avg(values): round(sum(values) / len(values), 4), 0.0 for an empty *)
(* list.  The values are in hundredths, the result is in ten-thousandths.   *)
_safe_avg_unguarded(values) ==
    round4(100 * SumSeq(values), Max2(1, Len(values)), 0) + (IF values = <<>> THEN 1 ELSE 0)

_safe_avg(values) ==
    IF values = <<>> THEN 0
    ELSE round4(100 * SumSeq(values), Len(values), mean_error(values))

(* the counters and statistics of the DetectionReport generate() builds *)
generate_counts_confidences(r) ==
    LET frames_with == Cardinality({ i \in 1..Len(r.frame_stats) :
                                        r.frame_stats[i].confidences # <<>> })
        total_det == Len(r.all_confidences)
    IN  [written |-> TRUE, cut_off |-> FALSE,
         total_processed_frames |-> Len(r.frame_stats),
         frames_with_detections |-> frames_with,
         frames_without_detections |-> Len(r.frame_stats) - frames_with,
         total_detections |-> total_det,
         avg_confidence |-> _safe_avg(r.all_confidences),
         min_confidence |-> IF r.all_confidences # <<>> THEN MinSeq(r.all_confidences) ELSE 0,
         max_confidence |-> IF r.all_confidences # <<>> THEN MaxSeq(r.all_confidences) ELSE 0,
         avg_fps |-> _safe_avg(r.all_fps),
         min_fps |-> IF r.all_fps # <<>> THEN MinSeq(r.all_fps) ELSE 0,
         max_fps |-> IF r.all_fps # <<>> THEN MaxSeq(r.all_fps) ELSE 0]

HasConfidences(stats) == stats.confidences # <<>>

generate_mean_of_frame_means(r) ==
    LET frames_with == Cardinality({ i \in 1..Len(r.frame_stats) :
                                        r.frame_stats[i].detection_count > 0 })
        total_det == SumSeq([i \in 1..Len(r.frame_stats) |->
                                r.frame_stats[i].detection_count])
    IN  [written |-> TRUE, cut_off |-> FALSE,
         total_processed_frames |-> Len(r.frame_stats),
         frames_with_detections |-> frames_with,
         frames_without_detections |-> Len(r.frame_stats) - frames_with,
         total_detections |-> total_det,
         avg_confidence |->
             LET with == SelectSeq(r.frame_stats, HasConfidences)
             IN  IF with = <<>> THEN 0
                 ELSE round4(SumSeq([i \in 1..Len(with) |-> _safe_avg(with[i].confidences)]),
                             Len(with), 0),
         min_confidence |-> IF r.all_confidences # <<>> THEN MinSeq(r.all_confidences) ELSE 0,
         max_confidence |-> IF r.all_confidences # <<>> THEN MaxSeq(r.all_confidences) ELSE 0,
         avg_fps |-> _safe_avg(r.all_fps),
         min_fps |-> IF r.all_fps # <<>> THEN MinSeq(r.all_fps) ELSE 0,
         max_fps |-> IF r.all_fps # <<>> THEN MaxSeq(r.all_fps) ELSE 0]

generate(r) ==
    LET frames_with == Cardinality({ i \in 1..Len(r.frame_stats) :
                                        r.frame_stats[i].detection_count > 0 })
        total_det == SumSeq([i \in 1..Len(r.frame_stats) |->
                                r.frame_stats[i].detection_count])
    IN  [written |-> TRUE, cut_off |-> FALSE,
         total_processed_frames |-> Len(r.frame_stats),
         frames_with_detections |-> frames_with,
         frames_without_detections |-> Len(r.frame_stats) - frames_with,
         total_detections |-> total_det,
         avg_confidence |-> _safe_avg(r.all_confidences),
         min_confidence |-> IF r.all_confidences # <<>> THEN MinSeq(r.all_confidences) ELSE 0,
         max_confidence |-> IF r.all_confidences # <<>> THEN MaxSeq(r.all_confidences) ELSE 0,
         avg_fps |-> _safe_avg(r.all_fps),
         min_fps |-> IF r.all_fps # <<>> THEN MinSeq(r.all_fps) ELSE 0,
         max_fps |-> IF r.all_fps # <<>> THEN MaxSeq(r.all_fps) ELSE 0]

-----------------------------------------------------------------------------
(* Pipeline runs: DetectionPipeline.run, one action per statement *)

(* shapes <<width, height>> of the frames a source delivers *)
FrameShapes == { <<640, 480>>, <<1280, 720>>, <<750, 600>> }

PipeOracleLists ==
    { <<>>,
      <<Detection(-5, -1, 110, 220, 150)>>,   \* at the frame border; above the maximum
                                              \* size once divided by 0.5
      <<Detection(192, 10, 64, 128, 90), Detection(0, 0, 30, 128, 90)>> }

PipeSampleIntervals == {2, 10}

InWith == { "setup_writer", "read", "tick", "preprocess", "detect", "rescale",
            "postprocess", "draw", "sample", "record", "show", "release_writer" }

OutsideWith == { "initialize", "reporter_start", "destroy", "report" }

InitPipe ==
    /\ pc = "initialize"
    /\ config \in [save_output : BOOLEAN, enable_reporting : BOOLEAN,
                   enable_frame_sampling : BOOLEAN]
    /\ capture = "None"
    /\ framesLeft \in 0..MaxFrames
    /\ writer = "None"
    /\ written = 0
    /\ frame_count = 0
    /\ frame = NoFrame
    /\ scale_factor = <<1, 1>>
    /\ processed = NoFrame
    /\ nProcess = 0
    /\ frameDets = <<>>
    /\ fps = [ticks |-> 0, value |-> 0]
    /\ reporter = NewReporter
    /\ raised = "none"
    /\ raisedIn = "none"
    /\ everOpened = FALSE
    /\ steps = <<>>
    /\ delivered = 0
    /\ nRecord = 0
    /\ hog = "None"
    /\ enable_multi_pass \in BOOLEAN
    /\ oracleLog = <<>>
    /\ oracleAnswers = <<>>
    /\ detStatus = "none"
    /\ detOut = <<>>
    /\ nDetect = 0
    /\ nInit = 0
    /\ \E si \in PipeSampleIntervals : sampler = FrameSampler(si, 150, FALSE)
    /\ nCalls = 0
    /\ nEmpty = 0
    /\ nOverride = 0
    /\ last = NoCall
    /\ IdlePost
    /\ IdleScale

RunInitializeDetector_skipped ==
    /\ pc = "initialize"
    /\ UNCHANGED <<hog, nInit>>
    /\ pc' = "reporter_start"
    /\ UNCHANGED <<roundtrip, delivered, nRecord,
                 input, out, ppc, enable_multi_pass, oracleLog,
                 oracleAnswers, detStatus, detOut, nDetect, sampler, nCalls, nEmpty,
                 nOverride, last, config, capture, framesLeft, writer, written,
                 frame_count, frame, scale_factor, processed, nProcess, frameDets, fps,
                 reporter, raised, raisedIn, everOpened, steps>>

(* self._detector.initialize()                                              *)
RunInitializeDetector ==
    /\ pc = "initialize"
    /\ hog' = "HOGDescriptor"
    /\ nInit' = nInit + 1
    /\ pc' = "reporter_start"
    /\ UNCHANGED <<roundtrip, delivered, nRecord,
                 input, out, ppc, enable_multi_pass, oracleLog,
                 oracleAnswers, detStatus, detOut, nDetect, sampler, nCalls, nEmpty,
                 nOverride, last, config, capture, framesLeft, writer, written,
                 frame_count, frame, scale_factor, processed, nProcess, frameDets, fps,
                 reporter, raised, raisedIn, everOpened, steps>>

(* if self._reporter: self._reporter.start()                                *)
RunStartReporter ==
    /\ pc = "reporter_start"
    /\ reporter' = IF config.enable_reporting
                   THEN [reporter EXCEPT !.start_time_set = TRUE]
                   ELSE reporter
    /\ pc' = "enter"
    /\ UNCHANGED <<roundtrip, delivered, nRecord,
                 input, out, ppc, hog, enable_multi_pass, oracleLog,
                 oracleAnswers, detStatus, detOut, nDetect, nInit, sampler, nCalls,
                 nEmpty, nOverride, last, config, capture, framesLeft, writer, written,
                 frame_count, frame, scale_factor, processed, nProcess, frameDets, fps,
                 raised, raisedIn, everOpened, steps>>

(* with self._source: __enter__ calls open(), which raises IOError when the *)
(* capture cannot be opened; __exit__ is not run in that case               *)
EnterSource ==
    /\ pc = "enter"
    /\ \/ /\ capture' = "open"
          /\ everOpened' = TRUE
          /\ pc' = "setup_writer"
          /\ raised' = raised
          /\ raisedIn' = raisedIn
       \/ /\ capture' = "closed"
          /\ everOpened' = everOpened
          /\ pc' = "raised"
          /\ raised' = "IOError"
          /\ raisedIn' = "__enter__"
    /\ UNCHANGED <<roundtrip, delivered, nRecord,
                 input, out, ppc, hog, enable_multi_pass, oracleLog,
                 oracleAnswers, detStatus, detOut, nDetect, nInit, sampler, nCalls,
                 nEmpty, nOverride, last, config, framesLeft, writer, written,
                 frame_count, frame, scale_factor, processed, nProcess, frameDets, fps,
                 reporter, steps>>

SetupOutputWriter ==
    /\ pc = "setup_writer"
    /\ writer' = IF config.save_output THEN "open" ELSE writer
    /\ pc' = "read"
    /\ UNCHANGED <<roundtrip, delivered, nRecord,
                 input, out, ppc, hog, enable_multi_pass, oracleLog,
                 oracleAnswers, detStatus, detOut, nDetect, nInit, sampler, nCalls,
                 nEmpty, nOverride, last, config, capture, framesLeft, written,
                 frame_count, frame, scale_factor, processed, nProcess, frameDets, fps,
                 reporter, raised, raisedIn, everOpened, steps>>

ReadFrame_raises_on_failure ==
    /\ pc = "read"
    /\ \/ /\ is_opened(capture)
          /\ framesLeft > 0
          /\ framesLeft' = framesLeft - 1
          /\ frame' \in FrameShapes
          /\ delivered' = delivered + 1
          /\ pc' = "tick"
          /\ raised' = raised
          /\ raisedIn' = raisedIn
       \/ /\ frame' = NoFrame
          /\ framesLeft' = framesLeft
          /\ delivered' = delivered
          /\ pc' = IF framesLeft > 0 THEN "exit_exc" ELSE "release_writer"
          /\ raised' = IF framesLeft > 0 THEN "IOError" ELSE raised
          /\ raisedIn' = IF framesLeft > 0 THEN "read" ELSE raisedIn
    /\ steps' = <<"read_frame">>
    /\ UNCHANGED <<roundtrip, nRecord,
                 input, out, ppc, hog, enable_multi_pass, oracleLog,
                 oracleAnswers, detStatus, detOut, nDetect, nInit, sampler, nCalls,
                 nEmpty, nOverride, last, config, capture, writer, written, frame_count,
                 scale_factor, processed, nProcess, frameDets, fps, reporter,
                 everOpened>>

(* frame = self._source.read_frame(); None ends the loop                    *)
ReadFrame ==
    /\ pc = "read"
    /\ \/ /\ is_opened(capture)
          /\ framesLeft > 0
          /\ framesLeft' = framesLeft - 1
          /\ frame' \in FrameShapes
          /\ delivered' = delivered + 1
          /\ pc' = "tick"
       \/ /\ frame' = NoFrame
          /\ framesLeft' = framesLeft
          /\ delivered' = delivered
          /\ pc' = "release_writer"
    /\ steps' = <<"read_frame">>
    /\ UNCHANGED <<roundtrip, nRecord,
                 input, out, ppc, hog, enable_multi_pass, oracleLog,
                 oracleAnswers, detStatus, detOut, nDetect, nInit, sampler, nCalls,
                 nEmpty, nOverride, last, config, capture, writer, written, frame_count,
                 scale_factor, processed, nProcess, frameDets, fps, reporter, raised, raisedIn,
                 everOpened>>

(* self._fps_counter.tick(); frame_count += 1                               *)
Tick ==
    /\ pc = "tick"
    /\ \E v \in {fps.value, 30} : fps' = FPSCounter_tick(fps, v)
    /\ frame_count' = frame_count + 1
    /\ steps' = Append(steps, "tick")
    /\ pc' = "preprocess"
    /\ UNCHANGED <<roundtrip, delivered, nRecord,
                 input, out, ppc, hog, enable_multi_pass, oracleLog,
                 oracleAnswers, detStatus, detOut, nDetect, nInit, sampler, nCalls,
                 nEmpty, nOverride, last, config, capture, framesLeft, writer, written,
                 frame, scale_factor, processed, nProcess, frameDets, reporter, raised, raisedIn,
                 everOpened>>

(* processed = self._preprocessor.process(frame)                            *)
Preprocess ==
    /\ pc = "preprocess"
    /\ scale_factor' = _resize(frame).scale_factor
    /\ processed' = _resize(frame).shape
    /\ nProcess' = nProcess + 1
    /\ steps' = Append(steps, "preprocess")
    /\ pc' = "detect"
    /\ UNCHANGED <<roundtrip, delivered, nRecord,
                 input, out, ppc, hog, enable_multi_pass, oracleLog,
                 oracleAnswers, detStatus, detOut, nDetect, nInit, sampler, nCalls,
                 nEmpty, nOverride, last, config, capture, framesLeft, writer, written,
                 frame_count, frame, frameDets, fps, reporter, raised, raisedIn, everOpened>>

(* detections = self._detector.detect(processed)                            *)
DetectStep ==
    /\ pc = "detect"
    /\ \E r1 \in PipeOracleLists, r2 \in PipeOracleLists :
        /\ (~enable_multi_pass => r2 = <<>>)
        /\ LET res == detect(hog, enable_multi_pass, r1, r2)
           IN  /\ detStatus' = res.status
               /\ detOut' = res.out
               /\ oracleLog' = oracleLog \o res.calls
               /\ oracleAnswers' = res.answers
               /\ IF res.status = "RuntimeError"
                  THEN /\ raised' = "RuntimeError"
                       /\ raisedIn' = "detect"
                       /\ pc' = "exit_exc"
                       /\ frameDets' = frameDets
                  ELSE /\ frameDets' = res.out
                       /\ pc' = "rescale"
                       /\ raised' = raised
                       /\ raisedIn' = raisedIn
    /\ nDetect' = nDetect + 1
    /\ steps' = Append(steps, "detect")
    /\ UNCHANGED <<roundtrip, delivered, nRecord,
                 input, out, ppc, hog, enable_multi_pass, nInit, sampler,
                 nCalls, nEmpty, nOverride, last, config, capture, framesLeft, writer,
                 written, frame_count, frame, scale_factor, processed, nProcess, fps,
                 reporter, everOpened>>

(* scale = self._preprocessor.scale_factor                                  *)
(* if scale != 1.0: detections = [d.scale(scale) for d in detections]       *)
Rescale ==
    /\ pc = "rescale"
    /\ IF scale_factor[1] # scale_factor[2]
       THEN /\ frameDets' = [i \in 1..Len(frameDets) |->
                                Detection_scale(frameDets[i], scale_factor)]
            /\ steps' = Append(steps, "rescale")
       ELSE /\ frameDets' = frameDets
            /\ steps' = steps
    /\ pc' = "postprocess"
    /\ UNCHANGED <<roundtrip, delivered, nRecord,
                 input, out, ppc, hog, enable_multi_pass, oracleLog,
                 oracleAnswers, detStatus, detOut, nDetect, nInit, sampler, nCalls,
                 nEmpty, nOverride, last, config, capture, framesLeft, writer, written,
                 frame_count, frame, scale_factor, processed, nProcess, fps, reporter,
                 raised, raisedIn, everOpened>>

(* detections = self._postprocessor.process(detections)                     *)
PostprocessStep ==
    /\ pc = "postprocess"
    /\ input' = frameDets
    /\ out' = process(frameDets)
    /\ ppc' = "done"
    /\ frameDets' = process(frameDets)
    /\ steps' = Append(steps, "postprocess")
    /\ pc' = "draw"
    /\ UNCHANGED <<roundtrip, delivered, nRecord,
                 hog, enable_multi_pass, oracleLog, oracleAnswers,
                 detStatus, detOut, nDetect, nInit, sampler, nCalls, nEmpty, nOverride,
                 last, config, capture, framesLeft, writer, written, frame_count, frame,
                 scale_factor, processed, nProcess, fps, reporter, raised, raisedIn, everOpened>>

(* Visualizer.draw writes the annotated frame when a writer is set          *)
Draw ==
    /\ pc = "draw"
    /\ written' = IF writer # "None" THEN written + 1 ELSE written
    /\ steps' = Append(steps, "draw")
    /\ pc' = "sample"
    /\ UNCHANGED <<roundtrip, delivered, nRecord,
                 input, out, ppc, hog, enable_multi_pass, oracleLog,
                 oracleAnswers, detStatus, detOut, nDetect, nInit, sampler, nCalls,
                 nEmpty, nOverride, last, config, capture, framesLeft, writer,
                 frame_count, frame, scale_factor, processed, nProcess, frameDets, fps,
                 reporter, raised, raisedIn, everOpened>>

SampleStep_then_show ==
    /\ pc = "sample"
    /\ IF config.enable_frame_sampling
       THEN /\ sampler' = FrameSampler_process(sampler, frame_count, frameDets)
            /\ steps' = Append(steps, "sample")
       ELSE /\ sampler' = sampler
            /\ steps' = steps
    /\ pc' = "show"
    /\ UNCHANGED <<roundtrip, delivered, nRecord,
                 input, out, ppc, hog, enable_multi_pass, oracleLog,
                 oracleAnswers, detStatus, detOut, nDetect, nInit, nCalls, nEmpty,
                 nOverride, last, config, capture, framesLeft, writer, written,
                 frame_count, frame, scale_factor, processed, nProcess, frameDets, fps,
                 reporter, raised, raisedIn, everOpened>>

(* if self._sampler: self._sampler.process(frame_count, ..., detections)    *)
SampleStep ==
    /\ pc = "sample"
    /\ IF config.enable_frame_sampling
       THEN /\ sampler' = FrameSampler_process(sampler, frame_count, frameDets)
            /\ steps' = Append(steps, "sample")
       ELSE /\ sampler' = sampler
            /\ steps' = steps
    /\ pc' = "record"
    /\ UNCHANGED <<roundtrip, delivered, nRecord,
                 input, out, ppc, hog, enable_multi_pass, oracleLog,
                 oracleAnswers, detStatus, detOut, nDetect, nInit, nCalls, nEmpty,
                 nOverride, last, config, capture, framesLeft, writer, written,
                 frame_count, frame, scale_factor, processed, nProcess, frameDets, fps,
                 reporter, raised, raisedIn, everOpened>>

RecordStep_zero_based ==
    /\ pc = "record"
    /\ IF config.enable_reporting
       THEN /\ reporter' = record_frame(reporter, frame_count - 1, Len(frameDets),
                                [i \in 1..Len(frameDets) |-> frameDets[i].confidence],
                                fps.value)
            /\ nRecord' = nRecord + 1
            /\ steps' = Append(steps, "record")
       ELSE /\ reporter' = reporter
            /\ nRecord' = nRecord
            /\ steps' = steps
    /\ pc' = "show"
    /\ UNCHANGED <<roundtrip, delivered,
                 input, out, ppc, hog, enable_multi_pass, oracleLog,
                 oracleAnswers, detStatus, detOut, nDetect, nInit, sampler, nCalls,
                 nEmpty, nOverride, last, config, capture, framesLeft, writer, written,
                 frame_count, frame, scale_factor, processed, nProcess, frameDets, fps,
                 raised, raisedIn, everOpened>>

(* if self._reporter: self._reporter.record_frame(...)                      *)
RecordStep ==
    /\ pc = "record"
    /\ IF config.enable_reporting
       THEN /\ reporter' = record_frame(reporter, frame_count, Len(frameDets),
                                [i \in 1..Len(frameDets) |-> frameDets[i].confidence],
                                fps.value)
            /\ nRecord' = nRecord + 1
            /\ steps' = Append(steps, "record")
       ELSE /\ reporter' = reporter
            /\ nRecord' = nRecord
            /\ steps' = steps
    /\ pc' = "show"
    /\ UNCHANGED <<roundtrip, delivered,
                 input, out, ppc, hog, enable_multi_pass, oracleLog,
                 oracleAnswers, detStatus, detOut, nDetect, nInit, sampler, nCalls,
                 nEmpty, nOverride, last, config, capture, framesLeft, writer, written,
                 frame_count, frame, scale_factor, processed, nProcess, frameDets, fps,
                 raised, raisedIn, everOpened>>

(* cv2.imshow, then key = cv2.waitKey(1): the quit key ends the loop        *)
Show ==
    /\ pc = "show"
    /\ steps' = steps \o <<"imshow", "waitKey">>
    /\ pc' \in {"read", "release_writer"}
    /\ UNCHANGED <<roundtrip, delivered, nRecord,
                 input, out, ppc, hog, enable_multi_pass, oracleLog,
                 oracleAnswers, detStatus, detOut, nDetect, nInit, sampler, nCalls,
                 nEmpty, nOverride, last, config, capture, framesLeft, writer, written,
                 frame_count, frame, scale_factor, processed, nProcess, frameDets, fps,
                 reporter, raised, raisedIn, everOpened>>

ReleaseWriter ==
    /\ pc = "release_writer"
    /\ writer' = release_writer(writer)
    /\ pc' = "exit"
    /\ UNCHANGED <<roundtrip, delivered, nRecord,
                 input, out, ppc, hog, enable_multi_pass, oracleLog,
                 oracleAnswers, detStatus, detOut, nDetect, nInit, sampler, nCalls,
                 nEmpty, nOverride, last, config, capture, framesLeft, written,
                 frame_count, frame, scale_factor, processed, nProcess, frameDets, fps,
                 reporter, raised, raisedIn, everOpened, steps>>

(* leaving the with block normally                                          *)
ExitSource ==
    /\ pc = "exit"
    /\ capture' = __exit__(capture, raised)
    /\ pc' = "destroy"
    /\ UNCHANGED <<roundtrip, delivered, nRecord,
                 input, out, ppc, hog, enable_multi_pass, oracleLog,
                 oracleAnswers, detStatus, detOut, nDetect, nInit, sampler, nCalls,
                 nEmpty, nOverride, last, config, framesLeft, writer, written,
                 frame_count, frame, scale_factor, processed, nProcess, frameDets, fps,
                 reporter, raised, raisedIn, everOpened, steps>>

DestroyWindows ==
    /\ pc = "destroy"
    /\ pc' = "report"
    /\ UNCHANGED <<roundtrip, delivered, nRecord,
                 input, out, ppc, hog, enable_multi_pass, oracleLog,
                 oracleAnswers, detStatus, detOut, nDetect, nInit, sampler, nCalls,
                 nEmpty, nOverride, last, config, capture, framesLeft, writer, written,
                 frame_count, frame, scale_factor, processed, nProcess, frameDets, fps,
                 reporter, raised, raisedIn, everOpened, steps>>

(* self._generate_report(): nothing to do without a reporter                *)
GenerateReport ==
    /\ pc = "report"
    /\ reporter' = IF config.enable_reporting
                   THEN [reporter EXCEPT !.generated = @ + 1, !.report = generate(reporter)]
                   ELSE reporter
    /\ pc' = "finished"
    /\ UNCHANGED <<roundtrip, delivered, nRecord,
                 input, out, ppc, hog, enable_multi_pass, oracleLog,
                 oracleAnswers, detStatus, detOut, nDetect, nInit, sampler, nCalls,
                 nEmpty, nOverride, last, config, capture, framesLeft, writer, written,
                 frame_count, frame, scale_factor, processed, nProcess, frameDets, fps,
                 raised, raisedIn, everOpened, steps>>

(* What an exception leaves behind.  Untouched: a KeyboardInterrupt that   *)
(* arrives before the statement at pc has done anything.                   *)
Untouched ==
    [kinds |-> OnlyInterrupt, steps |-> steps, fps |-> fps,
     scale_factor |-> scale_factor, processed |-> processed, nProcess |-> nProcess,
     nDetect |-> nDetect, detStatus |-> detStatus, detOut |-> detOut,
     oracleLog |-> oracleLog, oracleAnswers |-> oracleAnswers,
     input |-> input, out |-> out, ppc |-> ppc,
     sampler |-> sampler, reporter |-> reporter, nRecord |-> nRecord,
     writer |-> writer, written |-> written,
     framesLeft |-> framesLeft, delivered |-> delivered, frame |-> frame]

(* _setup_output_writer: os.makedirs or cv2.VideoWriter fails, or a        *)
(* KeyboardInterrupt arrives once the writer is set (in the log call of    *)
(* setup_writer, or as the call returns)                                   *)
PartialSetupOutputWriter ==
    IF config.save_output
    THEN { [Untouched EXCEPT !.kinds = AnyException], [Untouched EXCEPT !.writer = "open"] }
    ELSE {}

(* frame = self._source.read_frame(): capture.read() fails; or a           *)
(* KeyboardInterrupt arrives as capture.read() returns a frame inside      *)
(* read_frame (the frame is consumed, read_frame does not return it), as   *)
(* read_frame returns it (the local frame is not assigned), or in the log  *)
(* call that follows a read_frame that returned None                       *)
PartialReadFrame ==
    LET called == [Untouched EXCEPT !.steps = <<"read_frame">>]
    IN  { [called EXCEPT !.kinds = AnyException], [called EXCEPT !.frame = NoFrame] }
        \cup (IF is_opened(capture) /\ framesLeft > 0
              THEN { [called EXCEPT !.framesLeft = framesLeft - 1],
                     [called EXCEPT !.framesLeft = framesLeft - 1,
                                    !.delivered = delivered + 1] }
              ELSE {})

(* tick() interrupted before the append, after it, or after the fps was    *)
(* assigned and before frame_count += 1                                    *)
PartialTick ==
    LET called == [Untouched EXCEPT !.steps = Append(steps, "tick")]
    IN  { called, [called EXCEPT !.fps = FPSCounter_tick(fps, fps.value)] }
        \cup { [called EXCEPT !.fps = FPSCounter_tick(fps, v)] : v \in {fps.value, 30} }

(* Preprocessor.process: _resize assigns _scale_factor, then cv2.resize or *)
(* a later filter fails and nothing is returned; or a KeyboardInterrupt    *)
(* arrives as process returns                                              *)
PartialPreprocess ==
    LET called == [Untouched EXCEPT !.steps = Append(steps, "preprocess"),
                                    !.nProcess = nProcess + 1]
    IN  { called,
          [called EXCEPT !.kinds = AnyException,
                         !.scale_factor = _resize(frame).scale_factor],
          [called EXCEPT !.scale_factor = _resize(frame).scale_factor,
                         !.processed = _resize(frame).shape] }

(* detect(): detectMultiScale fails in the first or in the second pass, or *)
(* a KeyboardInterrupt arrives around the calls and nothing is returned;   *)
(* or it arrives as detect returns, before the local list is assigned      *)
PartialDetect ==
    IF hog = "None" THEN {}
    ELSE LET called == [Untouched EXCEPT !.steps = Append(steps, "detect"),
                                         !.nDetect = nDetect + 1,
                                         !.detStatus = "raised",
                                         !.oracleAnswers = <<>>]
             first == [called EXCEPT !.oracleLog = oracleLog \o <<PrimaryParams>>]
             both == [called EXCEPT !.oracleLog = oracleLog \o <<PrimaryParams, SecondParams>>]
         IN  { called, [first EXCEPT !.kinds = AnyException] }
             \cup { [first EXCEPT !.oracleAnswers = <<r1>>] : r1 \in PipeOracleLists }
             \cup (IF enable_multi_pass
                   THEN { [both EXCEPT !.kinds = AnyException, !.oracleAnswers = <<r1>>] :
                             r1 \in PipeOracleLists }
                        \cup { [both EXCEPT !.oracleAnswers = <<r1, r2>>] :
                                  r1 \in PipeOracleLists, r2 \in PipeOracleLists }
                   ELSE {})
             \cup { [called EXCEPT !.detStatus = detect(hog, enable_multi_pass, r1, r2).status,
                                   !.detOut = detect(hog, enable_multi_pass, r1, r2).out,
                                   !.oracleLog =
                                       oracleLog \o detect(hog, enable_multi_pass, r1, r2).calls,
                                   !.oracleAnswers =
                                       detect(hog, enable_multi_pass, r1, r2).answers] :
                        r1 \in PipeOracleLists,
                        r2 \in IF enable_multi_pass THEN PipeOracleLists ELSE { <<>> } }

(* the list comprehension over d.scale(scale) is interrupted *)
PartialRescale ==
    IF scale_factor[1] # scale_factor[2]
    THEN { [Untouched EXCEPT !.steps = Append(steps, "rescale")] }
    ELSE {}

(* Postprocessor.process: cv2.dnn.NMSBoxes fails; or a KeyboardInterrupt   *)
(* arrives as process returns, before the local list is assigned           *)
PartialPostprocess ==
    LET called == [Untouched EXCEPT !.steps = Append(steps, "postprocess")]
    IN  { [called EXCEPT !.kinds = AnyException],
          [called EXCEPT !.input = frameDets, !.out = process(frameDets), !.ppc = "done"] }

(* Visualizer.draw: a drawing call or writer.write fails; or a             *)
(* KeyboardInterrupt arrives as writer.write returns                       *)
PartialDraw ==
    LET called == [Untouched EXCEPT !.steps = Append(steps, "draw")]
    IN  { [called EXCEPT !.kinds = AnyException] }
        \cup (IF writer # "None" THEN { [called EXCEPT !.written = written + 1] } ELSE {})

(* FrameSampler.process is cut short, or a KeyboardInterrupt arrives as it *)
(* returns                                                                 *)
PartialSample ==
    IF config.enable_frame_sampling
    THEN LET called == [Untouched EXCEPT !.steps = Append(steps, "sample")]
         IN  { called }
             \cup { [called EXCEPT !.kinds = p.kinds, !.sampler = p.sampler] :
                       p \in FrameSampler_process_partial(sampler, frame_count, frameDets) }
    ELSE {}

(* record_frame is interrupted before or between its appends, or after    *)
(* the last one                                                            *)
PartialRecord ==
    IF config.enable_reporting
    THEN LET called == [Untouched EXCEPT !.steps = Append(steps, "record"),
                                         !.nRecord = nRecord + 1]
         IN  { called }
             \cup { [called EXCEPT !.reporter = r] :
                       r \in record_frame_partial(reporter, frame_count, Len(frameDets),
                                [i \in 1..Len(frameDets) |-> frameDets[i].confidence],
                                fps.value) }
    ELSE {}

(* cv2.imshow fails, or cv2.waitKey does *)
PartialShow ==
    { [Untouched EXCEPT !.kinds = AnyException, !.steps = Append(steps, "imshow")],
      [Untouched EXCEPT !.kinds = AnyException, !.steps = steps \o <<"imshow", "waitKey">>] }

(* release_writer: writer.release() fails, or a KeyboardInterrupt arrives  *)
(* between the release and the assignment of None, or after it (in the log *)
(* call)                                                                   *)
PartialReleaseWriter ==
    IF writer # "None"
    THEN { [Untouched EXCEPT !.kinds = AnyException], [Untouched EXCEPT !.writer = "released"],
           [Untouched EXCEPT !.writer = release_writer(writer)] }
    ELSE {}

PartialInWith ==
    { Untouched }
    \cup CASE pc = "setup_writer" -> PartialSetupOutputWriter
           [] pc = "read" -> PartialReadFrame
           [] pc = "tick" -> PartialTick
           [] pc = "preprocess" -> PartialPreprocess
           [] pc = "detect" -> PartialDetect
           [] pc = "rescale" -> PartialRescale
           [] pc = "postprocess" -> PartialPostprocess
           [] pc = "draw" -> PartialDraw
           [] pc = "sample" -> PartialSample
           [] pc = "record" -> PartialRecord
           [] pc = "show" -> PartialShow
           [] pc = "release_writer" -> PartialReleaseWriter
           [] OTHER -> {}

(* a statement inside the with block raises (a step failing, Ctrl+C), or a *)
(* KeyboardInterrupt arrives at the end of the block before __exit__ is    *)
(* called: what the statement had done by then stays done                  *)
RaiseInWith ==
    /\ pc \in InWith \cup {"exit"}
    /\ \E p \in PartialInWith :
          /\ raised' \in p.kinds
          /\ raisedIn' = pc
          /\ steps' = p.steps
          /\ fps' = p.fps
          /\ scale_factor' = p.scale_factor
          /\ processed' = p.processed
          /\ nProcess' = p.nProcess
          /\ nDetect' = p.nDetect
          /\ detStatus' = p.detStatus
          /\ detOut' = p.detOut
          /\ input' = p.input
          /\ out' = p.out
          /\ ppc' = p.ppc
          /\ written' = p.written
          /\ framesLeft' = p.framesLeft
          /\ delivered' = p.delivered
          /\ frame' = p.frame
          /\ oracleLog' = p.oracleLog
          /\ oracleAnswers' = p.oracleAnswers
          /\ sampler' = p.sampler
          /\ reporter' = p.reporter
          /\ nRecord' = p.nRecord
          /\ writer' = p.writer
    /\ pc' = "exit_exc"
    /\ UNCHANGED <<roundtrip, hog, enable_multi_pass, nInit, nCalls, nEmpty, nOverride,
                 last, config, capture, frame_count, frameDets, everOpened>>

(* the with block is left by an exception: __exit__ runs, the exception     *)
(* propagates out of run()                                                  *)
ExitOnException ==
    /\ pc = "exit_exc"
    /\ capture' = __exit__(capture, raised)
    /\ pc' = "raised"
    /\ UNCHANGED <<roundtrip, delivered, nRecord,
                 input, out, ppc, hog, enable_multi_pass, oracleLog,
                 oracleAnswers, detStatus, detOut, nDetect, nInit, sampler, nCalls,
                 nEmpty, nOverride, last, config, framesLeft, writer, written,
                 frame_count, frame, scale_factor, processed, nProcess, frameDets, fps,
                 reporter, raised, raisedIn, everOpened, steps>>

(* __exit__ itself is cut short, on the normal exit of the with block or   *)
(* while an exception is in flight: capture.release() fails, or a          *)
(* KeyboardInterrupt arrives before it, between it and the assignment of   *)
(* None, or after that.  The new exception is the one run() ends with.     *)
RaiseInExit ==
    /\ pc \in {"exit", "exit_exc"}
    /\ \/ /\ capture' = capture
          /\ raised' \in AnyException
       \/ /\ capture # "None"
          /\ capture' \in {"closed", "None"}
          /\ raised' = "KeyboardInterrupt"
    /\ raisedIn' = "__exit__"
    /\ pc' = "raised"
    /\ UNCHANGED <<roundtrip, delivered, nRecord,
                 input, out, ppc, hog, enable_multi_pass, oracleLog,
                 oracleAnswers, detStatus, detOut, nDetect, nInit, sampler, nCalls,
                 nEmpty, nOverride, last, config, framesLeft, writer, written,
                 frame_count, frame, scale_factor, processed, nProcess, frameDets, fps,
                 reporter, everOpened, steps>>

(* a statement of run() outside the with block raises; __enter__ is one of *)
(* them: when open() does not return, __exit__ is not run                  *)
RaiseOutsideWith ==
    /\ pc \in OutsideWith \cup {"enter"}
    /\ \/ /\ raised' \in (IF \/ pc \in {"enter", "destroy"}
                             \/ (pc = "report" /\ config.enable_reporting)
                          THEN AnyException ELSE OnlyInterrupt)
          /\ UNCHANGED <<hog, nInit, capture, everOpened, reporter>>
       \/ /\ pc = "initialize"
          /\ nInit' = nInit + 1
          /\ hog' \in {hog, "HOGDescriptor"}
          /\ raised' \in AnyException
          /\ UNCHANGED <<capture, everOpened, reporter>>
       \/ /\ pc = "enter"
          /\ \/ (capture' = "open" /\ everOpened' = TRUE /\ raised' \in AnyException)
             \/ (capture' = "closed" /\ everOpened' = everOpened
                                     /\ raised' = "KeyboardInterrupt")
          /\ UNCHANGED <<hog, nInit, reporter>>
       \/ /\ pc = "reporter_start"
          /\ config.enable_reporting
          /\ reporter' = [reporter EXCEPT !.start_time_set = TRUE]
          /\ raised' = "KeyboardInterrupt"
          /\ UNCHANGED <<hog, nInit, capture, everOpened>>
       \/ /\ pc = "report"
          /\ config.enable_reporting
          /\ \/ /\ reporter' = [reporter EXCEPT !.report = CutOffReport]
                /\ raised' \in AnyException
             \/ /\ reporter' = [reporter EXCEPT !.generated = @ + 1,
                                                !.report = generate(reporter)]
                /\ raised' = "KeyboardInterrupt"
          /\ UNCHANGED <<hog, nInit, capture, everOpened>>
    /\ raisedIn' = IF pc = "enter" THEN "__enter__" ELSE pc
    /\ pc' = "raised"
    /\ UNCHANGED <<roundtrip, delivered, nRecord,
                 input, out, ppc, enable_multi_pass, oracleLog,
                 oracleAnswers, detStatus, detOut, nDetect, sampler, nCalls,
                 nEmpty, nOverride, last, config, framesLeft, writer, written,
                 frame_count, frame, scale_factor, processed, nProcess, frameDets, fps,
                 steps>>

NextPipe ==
    \/ RunInitializeDetector
    \/ RunStartReporter
    \/ EnterSource
    \/ SetupOutputWriter
    \/ ReadFrame
    \/ Tick
    \/ Preprocess
    \/ DetectStep
    \/ Rescale
    \/ PostprocessStep
    \/ Draw
    \/ SampleStep
    \/ RecordStep
    \/ Show
    \/ ReleaseWriter
    \/ ExitSource
    \/ DestroyWindows
    \/ GenerateReport
    \/ RaiseInWith
    \/ ExitOnException
    \/ RaiseInExit
    \/ RaiseOutsideWith

SpecPipe == InitPipe /\ [][NextPipe]_vars

(* Runs with the detector and sampler defaults of the configuration         *)
(* (enable_multi_pass False, sample_interval 10).  run() is a sequential    *)
(* program: while a statement remains it is executed.                       *)
InitPipeLive ==
    /\ InitPipe
    /\ ~enable_multi_pass
    /\ sampler = FrameSampler(10, 150, FALSE)

SpecPipeLive == InitPipeLive /\ [][NextPipe]_vars /\ WF_vars(NextPipe)

-----------------------------------------------------------------------------
(* Scaling round trips: d.scale(f) followed by .scale(1/f) *)

(* Factors in (0, 1] that a double holds exactly, so that the caller's 1/f *)
(* is the float nearest to the inverse ratio                               *)
ScaleFactors ==
    { <<1, 1>>, <<1, 2>>, <<3, 4>>, <<1, 4>>, <<5, 8>>, <<3, 8>>, <<7, 8>>, <<1, 8>> }

(* 1 / f as the caller computes it *)
Inverse(f) == <<f[2], f[1]>>

(* x and y may be negative: detectMultiScale with padding returns boxes    *)
(* that start left of or above the frame                                   *)
ScaleDetections ==
    { Detection(x, y, w, h, 90) : x \in (0 - MaxCoord)..MaxCoord, y \in {-1, 0, 7},
                                  w \in {1, 50, 192}, h \in {3, 100} }

InitScale ==
    /\ \E d \in ScaleDetections, f \in ScaleFactors :
          roundtrip = [pc |-> "start", orig |-> d, d |-> d, f |-> f]
    /\ IdlePost
    /\ IdleDet
    /\ IdleSampler
    /\ IdlePipe

(* scaled = d.scale(f): a new Detection is built, d is not assigned to *)
ScaleDown ==
    /\ roundtrip.pc = "start"
    /\ roundtrip' = [pc |-> "scaled", orig |-> roundtrip.orig, d |-> roundtrip.d,
                     f |-> roundtrip.f,
                     scaled |-> Detection_scale(roundtrip.d, roundtrip.f)]
    /\ UNCHANGED <<postVars, detVars, samplerVars, pipeVars>>

(* back = scaled.scale(1 / f) *)
ScaleBack ==
    /\ roundtrip.pc = "scaled"
    /\ roundtrip' = [pc |-> "back", orig |-> roundtrip.orig, d |-> roundtrip.d,
                     f |-> roundtrip.f, scaled |-> roundtrip.scaled,
                     back |-> Detection_scale(roundtrip.scaled, Inverse(roundtrip.f))]
    /\ UNCHANGED <<postVars, detVars, samplerVars, pipeVars>>

NextScale == ScaleDown \/ ScaleBack

SpecScale == InitScale /\ [][NextScale]_vars

-----------------------------------------------------------------------------
(* Preprocessor runs: a sequence of Preprocessor.process calls *)

PreFrameShapes ==
    { <<w, h>> : w \in {320, 640, 641, 716, 750, 1280, 1920},
                 h \in {240, 480, 537, 600, 720, 1080} }

InitPre ==
    /\ IdlePost
    /\ IdleDet
    /\ IdleSampler
    /\ IdlePipe
    /\ IdleScale

(* processed = self._preprocessor.process(frame) *)
PreprocessorProcess ==
    /\ nProcess < MaxProcessCalls
    /\ \E shape \in PreFrameShapes :
        /\ frame' = shape
        /\ scale_factor' = _resize(shape).scale_factor
        /\ processed' = _resize(shape).shape
    /\ nProcess' = nProcess + 1
    /\ UNCHANGED <<postVars, detVars, samplerVars, roundtrip, pc, config, capture,
                   framesLeft, writer, written, frame_count, frameDets, fps, reporter,
                   raised, raisedIn, everOpened, steps, delivered, nRecord>>

NextPre == PreprocessorProcess

SpecPre == InitPre /\ [][NextPre]_vars

-----------------------------------------------------------------------------
(* Report generator runs: start, record_frame and generate in any order *)

ReportCounts == 0..2

ReportConfidenceLists == { <<>>, <<90>>, <<150, 60>> }

ReportFpsValues == {0, 25, 30}

InitReport ==
    /\ IdlePost
    /\ IdleDet
    /\ IdleSampler
    /\ IdlePipe
    /\ IdleScale

ReportStart ==
    /\ ~reporter.start_time_set
    /\ reporter' = [reporter EXCEPT !.start_time_set = TRUE]
    /\ UNCHANGED <<postVars, detVars, samplerVars, roundtrip, pc, config, capture,
                   framesLeft, writer, written, frame_count, frame, scale_factor,
                   processed, nProcess, frameDets, fps, raised, raisedIn, everOpened, steps,
                   delivered, nRecord>>

ReportRecordFrame ==
    /\ nRecord < MaxRecordCalls
    /\ \E detection_count \in ReportCounts, confidences \in ReportConfidenceLists,
          fps_value \in ReportFpsValues :
          reporter' = record_frame(reporter, nRecord + 1, detection_count, confidences,
                                   fps_value)
    /\ nRecord' = nRecord + 1
    /\ UNCHANGED <<postVars, detVars, samplerVars, roundtrip, pc, config, capture,
                   framesLeft, writer, written, frame_count, frame, scale_factor,
                   processed, nProcess, frameDets, fps, raised, raisedIn, everOpened, steps,
                   delivered>>

ReportGenerate ==
    /\ reporter.generated < MaxGenerateCalls
    /\ reporter' = [reporter EXCEPT !.generated = @ + 1, !.report = generate(reporter)]
    /\ UNCHANGED <<postVars, detVars, samplerVars, roundtrip, pc, config, capture,
                   framesLeft, writer, written, frame_count, frame, scale_factor,
                   processed, nProcess, frameDets, fps, raised, raisedIn, everOpened, steps,
                   delivered, nRecord>>

NextReport == ReportStart \/ ReportRecordFrame \/ ReportGenerate

SpecReport == InitReport /\ [][NextReport]_vars

-----------------------------------------------------------------------------
(* FPSCounter used on its own: tick() and reset() in any order.  run()     *)
(* calls tick() once per frame and never calls reset().                    *)

FpsValues == {24, 25, 30}

InitFps ==
    /\ IdlePost
    /\ IdleDet
    /\ IdleSampler
    /\ IdleScale
    /\ IdlePipe

FpsTick ==
    /\ \E v \in FpsValues \cup {fps.value} : fps' = FPSCounter_tick(fps, v)
    /\ UNCHANGED <<postVars, detVars, samplerVars, roundtrip, pc, config, capture,
                 framesLeft, writer, written, frame_count, frame, scale_factor,
                 processed, nProcess, frameDets, reporter, raised, raisedIn, everOpened, steps,
                 delivered, nRecord>>

FpsReset ==
    /\ fps' = FPSCounter_reset(fps)
    /\ UNCHANGED <<postVars, detVars, samplerVars, roundtrip, pc, config, capture,
                 framesLeft, writer, written, frame_count, frame, scale_factor,
                 processed, nProcess, frameDets, reporter, raised, raisedIn, everOpened, steps,
                 delivered, nRecord>>

NextFps == FpsTick \/ FpsReset

SpecFps == InitFps /\ [][NextFps]_vars

-----------------------------------------------------------------------------
(* Properties of Postprocessor.process (checked under SpecPost) *)

Count(s, d) == Cardinality({ i \in 1..Len(s) : s[i] = d })

Range(s) == { s[i] : i \in 1..Len(s) }

(* C1: every detection returned by Postprocessor.process is an element of  *)
(* the input list, unaltered, and occurs in the output no more often than  *)
(* in the input.                                                           *)
C1_OutputSubMultiset ==
    ppc = "done" =>
        \A i \in 1..Len(out) : Count(out, out[i]) <= Count(input, out[i])

C1_Witness ==
    /\ ppc = "done"
    /\ Len(out) >= 1
    /\ \E i \in 1..Len(out) : Count(input, out[i]) = 2 /\ Count(out, out[i]) = 1

(* C2 as stated: any two distinct detections of the output have            *)
(* Intersection-over-Union strictly less than nms_threshold.               *)
C2_IoUStrictlyBelow ==
    ppc = "done" =>
        \A i, j \in 1..Len(out) :
            i # j => InterArea(out[i], out[j]) * 100 < nms_threshold * UnionArea(out[i], out[j])

(* C2 amended: any two distinct detections of the output have              *)
(* Intersection-over-Union less than or equal to nms_threshold.            *)
C2_IoUAtMost ==
    ppc = "done" =>
        \A i, j \in 1..Len(out) :
            i # j => InterArea(out[i], out[j]) * 100 <= nms_threshold * UnionArea(out[i], out[j])

C2_Witness ==
    /\ ppc = "done"
    /\ Len(out) < Len(input)
    /\ \E i, j \in 1..Len(out) : i # j /\ InterArea(out[i], out[j]) > 0

(* The gates as process applies them, stated on the quotient h/w itself:   *)
(* for w # 0, r <= h/w is r * w * w <= h * w.                              *)
PassesGates(d) ==
    /\ d.confidence >= confidence_threshold
    /\ d.w # 0
    /\ d.w <= max_detection_w
    /\ d.h <= max_detection_h
    /\ min_aspect_ratio * d.w * d.w <= 100 * d.h * d.w
    /\ 100 * d.h * d.w <= max_aspect_ratio * d.w * d.w

(* the gate predicates with a positive width *)
GatePredicates(d) == PassesGates(d) /\ d.w > 0

(* C3 as stated: every detection of the output satisfies all gate          *)
(* predicates (confidence >= confidence_threshold, 0 < w <= max width,     *)
(* h <= max height, min_aspect_ratio <= h/w <= max_aspect_ratio); a        *)
(* zero-width detection is never returned, and the w=10, h=300 detection   *)
(* is rejected even at confidence 10.0.                                    *)
C3_OutputPassesGates ==
    ppc = "done" =>
        /\ \A i \in 1..Len(out) : GatePredicates(out[i])
        /\ \A i \in 1..Len(input) : input[i].w = 0 => input[i] \notin Range(out)
        /\ Detection(0, 0, 10, 300, 1000) \notin Range(out)

(* C3: every detection of the output satisfies confidence >=               *)
(* confidence_threshold, w # 0, w <= max width, h <= max height and        *)
(* min_aspect_ratio <= h/w <= max_aspect_ratio, and its width is positive  *)
(* whenever no width of the input is negative (the gate rejects a zero     *)
(* width only, so a box of negative width and height whose quotient is in  *)
(* range is returned); a zero-width detection is never returned, and the   *)
(* w=10, h=300 detection is rejected even at confidence 10.0.              *)
C3_OutputPassesGatesNonzeroWidth ==
    ppc = "done" =>
        /\ \A i \in 1..Len(out) : PassesGates(out[i])
        /\ (\A i \in 1..Len(input) : input[i].w >= 0) =>
              \A i \in 1..Len(out) : out[i].w > 0
        /\ \A i \in 1..Len(input) : input[i].w = 0 => input[i] \notin Range(out)
        /\ Detection(0, 0, 10, 300, 1000) \notin Range(out)

C3_Witness ==
    /\ ppc = "done"
    /\ Detection(0, 0, -10, -20, 90) \in Range(out)
    /\ Detection(0, 0, 10, 300, 1000) \in Range(input)
    /\ \E i \in 1..Len(input) : input[i].w = 0

(* C4: process keeps every detection whose confidence is >=                *)
(* confidence_threshold (equality included), provided it passes the        *)
(* geometric gate and its IoU with every other input detection does not    *)
(* exceed nms_threshold.                                                   *)
Unsuppressable(i) ==
    \A j \in 1..Len(input) :
        j # i => InterArea(input[i], input[j]) * 100 <= nms_threshold * UnionArea(input[i], input[j])

C4_KeepsAtThreshold ==
    ppc = "done" =>
        \A i \in 1..Len(input) :
            (PassesGates(input[i]) /\ Unsuppressable(i)) => input[i] \in Range(out)

(* Reference greedy suppression: take the highest-confidence remaining     *)
(* detection (the earliest one on a tie), emit it, drop every remaining    *)
(* detection whose IoU with it exceeds nms_threshold, repeat.              *)
BestIndex(ds) ==
    CHOOSE b \in 1..Len(ds) :
        /\ \A k \in 1..Len(ds) : ds[k].confidence <= ds[b].confidence
        /\ \A k \in 1..(b - 1) : ds[k].confidence < ds[b].confidence

RECURSIVE KeepAt(_, _, _)
KeepAt(ds, keep, n) ==
    IF n > Len(ds) THEN <<>>
    ELSE (IF n \in keep THEN <<ds[n]>> ELSE <<>>) \o KeepAt(ds, keep, n + 1)

RECURSIVE RefGreedy(_)
RefGreedy(ds) ==
    IF ds = <<>> THEN <<>>
    ELSE LET b == BestIndex(ds)
             keep == { k \in 1..Len(ds) :
                         /\ k # b
                         /\ InterArea(ds[b], ds[k]) * 100 <= nms_threshold * UnionArea(ds[b], ds[k]) }
         IN  <<ds[b]>> \o RefGreedy(KeepAt(ds, keep, 1))

(* C5: on the detections that pass both gates the suppression stage        *)
(* returns exactly the result of the reference greedy algorithm.           *)
C5_EqualsReferenceGreedy ==
    ppc = "done" => out = RefGreedy(SelectSeq(input, PassesGates))

-----------------------------------------------------------------------------
(* Properties of HOGDetector (checked under SpecDet) *)

(* C6: a detect() call made before initialize() fails with the "not        *)
(* initialized" RuntimeError and does not consult the classifier oracle;   *)
(* a detect() call made after initialize() does not raise that error.      *)
C6_DetectNeedsInitialize ==
    [][ nDetect' = nDetect + 1 =>
            IF hog = "None"
            THEN detStatus' = "RuntimeError" /\ oracleLog' = oracleLog
            ELSE detStatus' = "returned" /\ Len(oracleLog') > Len(oracleLog) ]_vars

C6_Witness ==
    /\ ~enable_multi_pass
    /\ nDetect >= 2
    /\ detStatus = "returned"
    /\ Len(oracleLog) >= 1
    /\ Len(oracleLog) < nDetect

-----------------------------------------------------------------------------
(* Properties of FrameSampler (checked under SpecSampler) *)

SavedFrames == { f[2] : f \in { g \in sampler.files : g[1] = "annotated" } }

(* C9: process on a frame with at least one detection increments           *)
(* frames_with_detections and then saves the frame if and only if (the     *)
(* override threshold is > 0 and the frame's maximum confidence is greater *)
(* than it) or (the incremented counter is a multiple of                   *)
(* max(1, sample_interval)).                                               *)
C9_SaveIffExceedsOrPeriodic ==
    /\ sampler.frames_with_detections = nCalls - nEmpty
    /\ last.n >= 1 =>
         (last.saved <=>
            \/ (sampler.min_confidence > 0 /\ last.max_conf > sampler.min_confidence)
            \/ sampler.frames_with_detections % Max2(1, sampler.sample_interval_arg) = 0)

(* C10 as stated: when every frame had detections and none triggered the   *)
(* override, frames_with_detections is the number of calls, the saved      *)
(* frames are exactly the positive multiples of the configured             *)
(* sample_interval and total_saved is floor(frames_with_detections /       *)
(* sample_interval).                                                       *)
C10_SavedMultiplesOfConfiguredInterval ==
    (nCalls >= 1 /\ nEmpty = 0 /\ nOverride = 0) =>
        /\ sampler.frames_with_detections = nCalls
        /\ SavedFrames =
             { k \in 1..nCalls : \E m \in 1..nCalls : k = m * sampler.sample_interval_arg }
        /\ sampler.total_saved = Cardinality(SavedFrames)
        /\ sampler.sample_interval_arg > 0 =>
               sampler.total_saved = nCalls \div sampler.sample_interval_arg

(* C10 amended: the same with sample_interval replaced by                  *)
(* max(1, sample_interval); with interval 10 and 25 such frames exactly    *)
(* frames 10 and 20 are saved.                                             *)
C10_SavedMultiplesOfEffectiveInterval ==
    (nEmpty = 0 /\ nOverride = 0) =>
        LET interval == Max2(1, sampler.sample_interval_arg)
        IN  /\ sampler.frames_with_detections = nCalls
            /\ SavedFrames = { k \in 1..nCalls : \E m \in 1..nCalls : k = m * interval }
            /\ sampler.total_saved = nCalls \div interval
            /\ (sampler.sample_interval_arg = 10 /\ nCalls = 25) =>
                   (SavedFrames = {10, 20} /\ sampler.total_saved = 2)

C10_Witness ==
    /\ nEmpty = 0
    /\ nOverride = 0
    /\ sampler.sample_interval_arg = 10
    /\ sampler.min_confidence > 0
    /\ nCalls = 25
    /\ sampler.frames_with_detections = 25
    /\ SavedFrames = {10, 20}

-----------------------------------------------------------------------------
(* Properties of DetectionPipeline.run (checked under SpecPipe) *)

RunEnded == pc \in {"finished", "raised"}

(* C7: once opened, the video source is released on every exit path of     *)
(* run() (end of stream, quit key, any exception in the with block); after *)
(* run returned or raised, the source's is_opened() is false.              *)
C7_SourceReleasedOnEveryExit ==
    RunEnded =>
        /\ ~is_opened(capture)
        /\ everOpened => capture = "None"

(* C8: an output writer that was set up is released on every exit path of  *)
(* run(), also when an exception is raised during frame processing.        *)
C8_WriterReleasedOnEveryExit ==
    RunEnded => writer = "None"

-----------------------------------------------------------------------------
(* Further properties of FrameSampler (checked under SpecSampler) *)

(* C11: process on a frame with an empty detection list leaves             *)
(* frames_with_detections and total_saved unchanged and writes no file, so *)
(* frames_with_detections counts only the frames that had detections and   *)
(* zero-detection frames do not shift the periodic trigger.                *)
C11_EmptyFrameIgnored ==
    /\ [](sampler.frames_with_detections = nCalls - nEmpty)
    /\ [][ nEmpty' = nEmpty + 1 =>
              /\ sampler'.frames_with_detections = sampler.frames_with_detections
              /\ sampler'.total_saved = sampler.total_saved
              /\ sampler'.files = sampler.files ]_vars

C11_Witness ==
    /\ nEmpty >= 1
    /\ last.n = 0
    /\ sampler.frames_with_detections >= 1
    /\ sampler.total_saved >= 1
    /\ sampler.sample_interval = 2

-----------------------------------------------------------------------------
(* Further properties of HOGDetector (checked under SpecDet) *)

(* C12: the first oracle call of detect receives the primary parameter set *)
(* of the configuration: win_stride, padding, scale and hit_threshold.     *)
C12_FirstCallUsesHitThreshold ==
    Len(oracleLog) >= 1 =>
        oracleLog[1] = [winStride |-> win_stride, padding |-> padding,
                        scale |-> scale, hitThreshold |-> hit_threshold]

MinSizeOK(c) == c.w >= min_detection_w /\ c.h >= min_detection_h

(* C13: with enable_multi_pass set detect returns the first-pass           *)
(* candidates followed by the second-pass candidates, each after the       *)
(* minimum-size rejection, so its length is the sum of both and a box both *)
(* passes found appears twice; with enable_multi_pass unset the oracle is  *)
(* consulted exactly once and only first-pass candidates are returned.     *)
C13_PassesConcatenated ==
    [][ (nDetect' = nDetect + 1 /\ hog # "None") =>
            IF enable_multi_pass
            THEN /\ Len(oracleLog') = Len(oracleLog) + 2
                 /\ Len(oracleAnswers') = 2
                 /\ detOut' = SelectSeq(oracleAnswers'[1], MinSizeOK)
                                 \o SelectSeq(oracleAnswers'[2], MinSizeOK)
                 /\ Len(detOut') = Len(SelectSeq(oracleAnswers'[1], MinSizeOK))
                                     + Len(SelectSeq(oracleAnswers'[2], MinSizeOK))
                 /\ \A c \in Range(oracleAnswers'[1]) \cap Range(oracleAnswers'[2]) :
                        MinSizeOK(c) => Count(detOut', c) >= 2
            ELSE /\ Len(oracleLog') = Len(oracleLog) + 1
                 /\ Len(oracleAnswers') = 1
                 /\ detOut' = SelectSeq(oracleAnswers'[1], MinSizeOK) ]_vars

C13_Witness ==
    /\ enable_multi_pass
    /\ detStatus = "returned"
    /\ Len(oracleAnswers) = 2
    /\ oracleAnswers[1] = oracleAnswers[2]
    /\ Len(detOut) = 2
    /\ detOut[1] = detOut[2]

(* C14: every Detection detect returns, from either pass, has              *)
(* w >= min_detection_size width and h >= min_detection_size height; a     *)
(* candidate the oracle answered below either minimum is not returned.     *)
C14_ReturnedMeetMinimumSize ==
    /\ \A i \in 1..Len(detOut) :
          detOut[i].w >= min_detection_w /\ detOut[i].h >= min_detection_h
    /\ detStatus = "returned" =>
          \A k \in 1..Len(oracleAnswers) : \A c \in Range(oracleAnswers[k]) :
              (c.w < min_detection_w \/ c.h < min_detection_h) => c \notin Range(detOut)

C14_Witness ==
    /\ enable_multi_pass
    /\ detStatus = "returned"
    /\ Len(oracleAnswers) = 2
    /\ Detection(10, 10, 40, 80, 60) \in Range(detOut)
    /\ Detection(0, 0, 64, 79, 90) \in Range(oracleAnswers[1])
    /\ Detection(10, 10, 40, 80, 60) \in Range(oracleAnswers[2])

-----------------------------------------------------------------------------
(* Further properties of DetectionPipeline.run (checked under SpecPipe) *)

(* C15: when run ends by source exhaustion or by the quit key, the output  *)
(* writer is released before the report is generated, and the final report *)
(* is generated exactly once if reporting is enabled and never if it is    *)
(* disabled.                                                               *)
C15_WriterReleasedThenOneReport ==
    /\ (pc = "report" \/ reporter.generated >= 1) => writer = "None"
    /\ reporter.generated <= 1
    /\ ~config.enable_reporting => reporter.generated = 0
    /\ pc = "finished" =>
          reporter.generated = (IF config.enable_reporting THEN 1 ELSE 0)

C15_Witness ==
    /\ pc = "finished"
    /\ config.save_output
    /\ config.enable_reporting
    /\ written >= 1
    /\ writer = "None"
    /\ reporter.generated = 1
    /\ Len(reporter.frame_stats) >= 1

(* the calls of one complete iteration of the frame loop, in order *)
ExpectedSteps ==
    <<"read_frame", "tick", "preprocess", "detect">>
    \o (IF scale_factor # <<1, 1>> THEN <<"rescale">> ELSE <<>>)
    \o <<"postprocess", "draw">>
    \o (IF config.enable_frame_sampling THEN <<"sample">> ELSE <<>>)
    \o (IF config.enable_reporting THEN <<"record">> ELSE <<>>)
    \o <<"imshow", "waitKey">>

IsPrefix(a, b) == Len(a) <= Len(b) /\ a = SubSeq(b, 1, Len(a))

(* C16: for every frame read the steps happen in the order FPS tick,       *)
(* preprocess, detect, rescale, postprocess, render, sample (if enabled),  *)
(* record statistics (if enabled), quit check; the next read_frame is      *)
(* issued only after all steps of the previous frame have completed, and   *)
(* the quit signal is examined once per iteration, after the frame was     *)
(* fully processed.                                                        *)
C16_StepsInOrderOneFrameAtATime ==
    /\ [](IsPrefix(steps, ExpectedSteps))
    /\ [][ (pc = "read" /\ steps' = <<"read_frame">> /\ steps # <<>>) =>
              steps = ExpectedSteps ]_vars
    /\ [][ (pc = "show" /\ pc' # "exit_exc") =>
              /\ steps' = ExpectedSteps
              /\ Count(steps', "waitKey") = 1 ]_vars

C16_Witness ==
    /\ pc = "tick"
    /\ frame_count = 1
    /\ nDetect = 1
    /\ steps = <<"read_frame">>
    /\ scale_factor # <<1, 1>>
    /\ config.enable_frame_sampling
    /\ Len(reporter.frame_stats) = 1

(* Created, Initialized, Running, Finished *)
Stage(p) ==
    CASE p = "initialize" -> 0
      [] p \in {"reporter_start", "enter"} -> 1
      [] p \in InWith \cup {"exit", "exit_exc"} -> 2
      [] OTHER -> 3

(* C17: in a pipeline run the detector's initialize is called exactly once *)
(* and before the first detect call, and the pipeline moves only forward   *)
(* through Created, Initialized, Running, Finished.                        *)
C17_InitializeOnceThenForward ==
    /\ [](/\ nInit <= 1
          /\ nDetect >= 1 => (nInit = 1 /\ hog # "None")
          /\ pc \in {"reporter_start", "enter", "finished"} \cup InWith => nInit = 1)
    /\ [][ Stage(pc') >= Stage(pc) ]_vars
    /\ [][ nDetect' # nDetect =>
              (nInit = 1 /\ hog # "None" /\ detStatus' # "RuntimeError") ]_vars

C17_Witness ==
    /\ pc = "finished"
    /\ nInit = 1
    /\ nDetect >= 2
    /\ detStatus = "returned"

(* C18: for each frame, if the Preprocessor's scale factor is not 1.0,     *)
(* every detection handed to the Postprocessor has x, y, w, h equal to the *)
(* detector's value divided by that scale factor, truncated to an integer, *)
(* and the same confidence; if the scale factor is 1.0 the detections are  *)
(* handed over unchanged.  Rescaling never changes their number.           *)
C18_RescaledByFrameScaleFactor ==
    pc \in {"draw", "sample", "record", "show"} =>
        /\ Len(input) = Len(detOut)
        /\ \A i \in 1..Len(input) :
              IF scale_factor = <<1, 1>>
              THEN input[i] = detOut[i]
              ELSE /\ input[i].x = int_truediv(detOut[i].x, scale_factor[1], scale_factor[2])
                   /\ input[i].y = int_truediv(detOut[i].y, scale_factor[1], scale_factor[2])
                   /\ input[i].w = int_truediv(detOut[i].w, scale_factor[1], scale_factor[2])
                   /\ input[i].h = int_truediv(detOut[i].h, scale_factor[1], scale_factor[2])
                   /\ input[i].confidence = detOut[i].confidence

C18_Witness ==
    /\ pc = "draw"
    /\ scale_factor = <<640, 750>>
    /\ Len(detOut) >= 1
    /\ detOut[1].x = 192
    /\ input[1].x = 224
    /\ input[1].h = 150

-----------------------------------------------------------------------------
(* Properties of Detection.scale (checked under SpecScale) *)

Abs(n) == IF n < 0 THEN 0 - n ELSE n

(* C19: for every detection d with non-negative integer x, y, w, h and     *)
(* every scale factor f with 0 < f <= 1, d.scale(f).scale(1/f) has d's     *)
(* confidence and each of x, y, w, h differs from d's by at most 1; d      *)
(* itself is not modified by scale.                                        *)
C19_RoundTripWithinOne ==
    /\ roundtrip.pc \in {"scaled", "back"} => roundtrip.d = roundtrip.orig
    /\ roundtrip.pc = "back" =>
          /\ roundtrip.back.confidence = roundtrip.orig.confidence
          /\ Abs(roundtrip.back.x - roundtrip.orig.x) <= 1
          /\ Abs(roundtrip.back.y - roundtrip.orig.y) <= 1
          /\ Abs(roundtrip.back.w - roundtrip.orig.w) <= 1
          /\ Abs(roundtrip.back.h - roundtrip.orig.h) <= 1

C19_Witness ==
    /\ roundtrip.pc = "back"
    /\ roundtrip.f = <<3, 4>>
    /\ roundtrip.back.x = roundtrip.orig.x - 1
    /\ roundtrip.back.y = roundtrip.orig.y
    /\ roundtrip.scaled.w > roundtrip.orig.w

-----------------------------------------------------------------------------
(* Properties of Preprocessor.process (checked under SpecPre) *)

(* C20: after Preprocessor.process on a frame of width W and height H: if  *)
(* W <= target_width then scale_factor is 1.0 and the frame size is        *)
(* unchanged; otherwise scale_factor equals target_width / W, the output   *)
(* width equals target_width and the output height equals                  *)
(* floor(H * target_width / W).  A 1280-wide frame with target_width 640   *)
(* gives scale_factor 0.5 and width 640.  scale_factor always reflects the *)
(* most recently processed frame.                                          *)
C20_ResizedToFloorOfProportionalHeight ==
    nProcess >= 1 =>
        IF frame[1] <= target_width
        THEN scale_factor = <<1, 1>> /\ processed = frame
        ELSE /\ scale_factor = <<target_width, frame[1]>>
             /\ processed[1] = target_width
             /\ processed[2] = (frame[2] * target_width) \div frame[1]
             /\ frame[1] = 1280 => (2 * scale_factor[1] = scale_factor[2] /\ processed[1] = 640)

-----------------------------------------------------------------------------
(* Further properties of Postprocessor.process (checked under SpecPost) *)

(* the highest confidence of the input belongs to entry i alone *)
StrictlyMostConfident(i) ==
    \A k \in 1..Len(input) : k # i => input[k].confidence < input[i].confidence

(* C26: a detection rejected by the confidence gate or the geometric gate  *)
(* never causes another detection to be removed: process(L) equals         *)
(* process(L with all gate-rejected detections deleted), even when a       *)
(* rejected detection has the highest confidence and overlaps a valid one  *)
(* above nms_threshold.                                                    *)
C26_RejectedNeverSuppresses ==
    ppc = "done" => out = process(SelectSeq(input, PassesGates))

C26_Witness ==
    /\ ppc = "done"
    /\ \E i, j \in 1..Len(input) :
          /\ ~PassesGates(input[i])
          /\ StrictlyMostConfident(i)
          /\ PassesGates(input[j])
          /\ InterArea(input[i], input[j]) * 100 > nms_threshold * UnionArea(input[i], input[j])
          /\ input[j] \in Range(out)

(* C27: process is idempotent: process(process(L)) returns the same        *)
(* detections in the same order as process(L).                             *)
C27_ProcessIdempotent ==
    ppc = "again" => out = input

C27_Witness ==
    /\ ppc = "again"
    /\ Len(input) = 2
    /\ out = input
    /\ input[1].confidence = input[2].confidence
    /\ InterArea(input[1], input[2]) > 0
    /\ input[1].x > input[2].x

-----------------------------------------------------------------------------
(* Properties of ReportGenerator (checked under SpecReport) *)

(* the frames recorded so far whose detection_count is positive *)
RecordedWithDetections ==
    { i \in 1..Len(reporter.frame_stats) : reporter.frame_stats[i].detection_count > 0 }

RECURSIVE SumOfCounts(_)
SumOfCounts(stats) ==
    IF stats = <<>> THEN 0 ELSE Head(stats).detection_count + SumOfCounts(Tail(stats))

(* C21: in the report generate produces, total_processed_frames is the     *)
(* number of record_frame calls, frames_with_detections the number of      *)
(* those calls with detection_count > 0, frames_with_detections +          *)
(* frames_without_detections = total_processed_frames, and                 *)
(* total_detections the sum of the recorded detection_count values.        *)
C21_ReportCountersMatchRecords ==
    /\ [](Len(reporter.frame_stats) = nRecord)
    /\ [][ reporter'.generated = reporter.generated + 1 =>
              /\ reporter'.report.total_processed_frames = nRecord
              /\ reporter'.report.frames_with_detections
                    = Cardinality(RecordedWithDetections)
              /\ reporter'.report.frames_with_detections
                    + reporter'.report.frames_without_detections
                    = reporter'.report.total_processed_frames
              /\ reporter'.report.total_detections
                    = SumOfCounts(reporter.frame_stats) ]_vars

C21_Witness ==
    /\ reporter.report.written
    /\ nRecord = 2
    /\ reporter.report.total_processed_frames = 2
    /\ reporter.report.frames_with_detections = 1
    /\ reporter.report.frames_without_detections = 1
    /\ reporter.report.total_detections = 2
    /\ Len(reporter.all_confidences) = 1

(* C24: generate never fails on empty data: with no recorded frames, with  *)
(* no recorded confidences, or with no positive FPS sample, the            *)
(* corresponding average, minimum and maximum are reported as 0 and a      *)
(* report is produced; _safe_avg of an empty list is 0.0 and               *)
(* _safe_avg([1.0, 3.0]) is 2.0.                                           *)
C24_EmptyDataReportedAsZero ==
    /\ [](_safe_avg(<<>>) = 0 /\ _safe_avg(<<100, 300>>) = 20000)
    /\ [][ reporter'.generated = reporter.generated + 1 =>
              /\ reporter'.report.written
              /\ reporter.frame_stats = <<>> =>
                    /\ reporter'.report.total_processed_frames = 0
                    /\ reporter'.report.total_detections = 0
                    /\ reporter'.report.avg_confidence = 0
                    /\ reporter'.report.avg_fps = 0
              /\ reporter.all_confidences = <<>> =>
                    /\ reporter'.report.avg_confidence = 0
                    /\ reporter'.report.min_confidence = 0
                    /\ reporter'.report.max_confidence = 0
              /\ reporter.all_fps = <<>> =>
                    /\ reporter'.report.avg_fps = 0
                    /\ reporter'.report.min_fps = 0
                    /\ reporter'.report.max_fps = 0 ]_vars

C24_Witness ==
    /\ reporter.generated = 2
    /\ reporter.report.written
    /\ reporter.report.total_processed_frames = 1
    /\ reporter.report.total_detections = 2
    /\ reporter.all_confidences = <<>>
    /\ reporter.all_fps = <<>>
    /\ reporter.report.avg_confidence = 0
    /\ reporter.report.max_fps = 0

-----------------------------------------------------------------------------
(* Properties of the report of a pipeline run (checked under SpecPipe) *)

RECURSIVE FlattenConfidences(_)
FlattenConfidences(stats) ==
    IF stats = <<>> THEN <<>>
    ELSE Head(stats).confidences \o FlattenConfidences(Tail(stats))

RECURSIVE Total(_)
Total(values) == IF values = <<>> THEN 0 ELSE Head(values) + Total(Tail(values))

(* a, in ten-thousandths, is the mean of the values, in hundredths,        *)
(* rounded to four decimals                                                *)
IsRoundedMean(a, values) ==
    IF values = <<>> THEN a = 0
    ELSE 2 * Abs(a * Len(values) - 100 * Total(values)) <= Len(values)

(* C22: the report's average, minimum and maximum confidence are those of  *)
(* the concatenation of the confidence lists of all recorded frames, each  *)
(* confidence weighted equally; frames without detections contribute no    *)
(* value, and in a pipeline run the number of aggregated confidences       *)
(* equals total_detections.  The aggregated list is the concatenation in   *)
(* every state of a run that no exception has ended and in every state     *)
(* with a written report (a record_frame cut short by an exception can     *)
(* leave it behind, and no report follows).                                *)
C22_ConfidenceStatsOverAllDetections ==
    LET all == FlattenConfidences(reporter.frame_stats)
    IN  /\ (raised = "none" \/ reporter.report.written) =>
              /\ reporter.all_confidences = all
              /\ Len(reporter.all_confidences) = SumOfCounts(reporter.frame_stats)
        /\ reporter.report.written =>
              /\ IsRoundedMean(reporter.report.avg_confidence, all)
              /\ Len(all) = reporter.report.total_detections
              /\ all # <<>> =>
                    /\ reporter.report.min_confidence \in Range(all)
                    /\ reporter.report.max_confidence \in Range(all)
                    /\ \A c \in Range(all) :
                          /\ reporter.report.min_confidence <= c
                          /\ c <= reporter.report.max_confidence

C22_Witness ==
    /\ pc = "finished"
    /\ reporter.report.written
    /\ Len(reporter.frame_stats) = 2
    /\ reporter.frame_stats[1].confidences = <<150, 90>>
    /\ reporter.frame_stats[2].confidences = <<150>>
    /\ reporter.report.avg_confidence = 13000
    /\ reporter.report.min_confidence = 90
    /\ reporter.report.max_confidence = 150

RECURSIVE PositiveFps(_)
PositiveFps(stats) ==
    IF stats = <<>> THEN <<>>
    ELSE (IF Head(stats).fps > 0 THEN <<Head(stats).fps>> ELSE <<>>)
             \o PositiveFps(Tail(stats))

(* C23: the report's FPS statistics are computed over exactly the recorded *)
(* fps values that are strictly positive; in a pipeline run the first      *)
(* processed frame is recorded with fps 0 and contributes no FPS sample,   *)
(* so there are at most (processed frames - 1) FPS samples.  The samples   *)
(* are the positive recorded values in every state of a run that no        *)
(* exception has ended and in every state with a written report.           *)
C23_FpsStatsOverPositiveSamples ==
    LET samples == PositiveFps(reporter.frame_stats)
    IN  /\ (raised = "none" \/ reporter.report.written) => reporter.all_fps = samples
        /\ Len(reporter.frame_stats) >= 1 => reporter.frame_stats[1].fps = 0
        /\ frame_count >= 1 => Len(reporter.all_fps) <= frame_count - 1
        /\ reporter.report.written =>
              /\ IsRoundedMean(reporter.report.avg_fps, samples)
              /\ samples = <<>> =>
                    reporter.report.min_fps = 0 /\ reporter.report.max_fps = 0
              /\ samples # <<>> =>
                    /\ reporter.report.min_fps \in Range(samples)
                    /\ reporter.report.max_fps \in Range(samples)
                    /\ \A v \in Range(samples) :
                          reporter.report.min_fps <= v /\ v <= reporter.report.max_fps

C23_Witness ==
    /\ pc = "finished"
    /\ reporter.report.written
    /\ Len(reporter.frame_stats) = 2
    /\ reporter.frame_stats[1].fps = 0
    /\ reporter.frame_stats[2].fps = 30
    /\ reporter.all_fps = <<30>>
    /\ reporter.report.avg_fps = 3000
    /\ reporter.report.min_fps = 30

AfterLoop == {"release_writer", "exit", "destroy", "report", "finished"}

(* C25: when read_frame yields no frame in the middle of a stream the      *)
(* pipeline treats it as end of stream: the frame loop stops without       *)
(* raising, no further read is attempted, the frames recorded so far are   *)
(* kept, and the run goes on to writer release and report generation as on *)
(* a normal end of video.                                                  *)
C25_ReadFailureEndsStreamGracefully ==
    /\ [][ (pc = "read" /\ steps' # steps /\ frame' = NoFrame
                          /\ raised' \notin AnyException) =>
              /\ pc' = "release_writer"
              /\ raised' = "none"
              /\ reporter' = reporter
              /\ delivered' = delivered ]_vars
    /\ [][ (pc \in AfterLoop) =>
              /\ pc' \in AfterLoop \cup {"exit_exc", "raised"}
              /\ delivered' = delivered
              /\ framesLeft' = framesLeft
              /\ reporter'.frame_stats = reporter.frame_stats ]_vars
    /\ [][ (pc = "release_writer" /\ raised' = "none") =>
              (pc' = "exit" /\ writer' = "None") ]_vars
    /\ [][ (pc = "report" /\ raised' = "none") =>
              /\ pc' = "finished"
              /\ config.enable_reporting =>
                    /\ reporter'.generated = reporter.generated + 1
                    /\ reporter'.report.total_processed_frames = nRecord ]_vars
    /\ []((pc = "finished" /\ frame = NoFrame) =>
              /\ writer = "None"
              /\ capture = "None"
              /\ delivered = frame_count
              /\ config.enable_reporting =>
                    /\ reporter.report.written
                    /\ reporter.report.total_processed_frames = frame_count)

C25_Witness ==
    /\ pc = "finished"
    /\ frame = NoFrame
    /\ framesLeft >= 1
    /\ delivered = 1
    /\ config.enable_reporting
    /\ config.save_output
    /\ written = 1
    /\ writer = "None"
    /\ reporter.report.written
    /\ reporter.report.total_processed_frames = 1

(* C28: each detection that reaches the visualizer, the sampler and the    *)
(* reporter has, in original-frame pixels, min_detection_size width <= w   *)
(* <= max_detection_size width and min_detection_size height <= h <=       *)
(* max_detection_size height, for any scale factor in (0, 1], although the *)
(* minimum is checked before rescaling and the maximum after it.           *)
C28_ReachingDetectionsWithinSizeBounds ==
    pc \in {"draw", "sample", "record", "show"} =>
        /\ scale_factor[1] > 0
        /\ scale_factor[1] <= scale_factor[2]
        /\ \A i \in 1..Len(frameDets) :
              /\ min_detection_w <= frameDets[i].w
              /\ frameDets[i].w <= max_detection_w
              /\ min_detection_h <= frameDets[i].h
              /\ frameDets[i].h <= max_detection_h

C28_Witness ==
    /\ pc = "draw"
    /\ scale_factor = <<640, 1280>>
    /\ Len(oracleAnswers) = 2
    /\ oracleAnswers[1] = <<Detection(-5, -1, 110, 220, 150)>>
    /\ Detection(0, 0, 30, 128, 90) \in Range(oracleAnswers[2])
    /\ Len(input) = 2
    /\ input[1].w = 220
    /\ frameDets = <<Detection(384, 20, 128, 256, 90)>>

Propagating == {"exit_exc", "raised"}

(* C29: if a per-frame step raises, or the run is interrupted by           *)
(* KeyboardInterrupt, run propagates the exception after releasing the     *)
(* source, reads no further frame and generates no report: the statistics  *)
(* recorded so far are never written, neither whole nor in part.           *)
C29_ExceptionPropagatesWithoutReport ==
    /\ [](pc \in Propagating =>
              /\ raised # "none"
              /\ reporter.generated = 0
              /\ ~reporter.report.written
              /\ ~reporter.report.cut_off)
    /\ []((pc = "raised" /\ everOpened) => capture = "None")
    /\ [][ (pc \in InWith /\ raised' # "none") => pc' = "exit_exc" ]_vars
    /\ [][ (pc = "exit_exc") =>
              /\ pc' = "raised"
              /\ raised' = raised
              /\ ~is_opened(capture') ]_vars
    /\ [][ (pc \in Propagating) =>
              /\ pc' \in Propagating
              /\ delivered' = delivered
              /\ framesLeft' = framesLeft
              /\ reporter' = reporter ]_vars

-----------------------------------------------------------------------------
(* Termination of DetectionPipeline.run (checked under SpecPipeLive) *)

FrameNumbersInOrder ==
    \A i \in 1..Len(reporter.frame_stats) : reporter.frame_stats[i].frame_number = i

(* C30: for a source that delivers finitely many frames and then end of    *)
(* stream, and with no step raising, run eventually terminates in the      *)
(* Finished state having processed each delivered frame exactly once, in   *)
(* order, with frame numbers 1, 2, 3, ... and exactly one report record    *)
(* per frame when reporting is enabled.                                    *)
C30_RunTerminatesEveryFrameOnce ==
    /\ ([](raised = "none")) => <>(pc = "finished")
    /\ [](/\ nProcess <= frame_count
          /\ frame_count <= delivered
          /\ delivered <= nProcess + 1
          /\ nDetect <= nProcess
          /\ FrameNumbersInOrder)
    /\ [][ frame_count' # frame_count =>
              (frame_count' = frame_count + 1 /\ frame_count' = delivered) ]_vars
    /\ [](pc = "finished" =>
              /\ raised = "none"
              /\ frame_count = delivered
              /\ nProcess = delivered
              /\ nDetect = delivered
              /\ nRecord = (IF config.enable_reporting THEN delivered ELSE 0)
              /\ Len(reporter.frame_stats) = nRecord)

C30_Witness ==
    /\ pc = "finished"
    /\ raised = "none"
    /\ framesLeft = 0
    /\ delivered = 2
    /\ nProcess = 2
    /\ nDetect = 2
    /\ config.enable_reporting
    /\ Len(reporter.frame_stats) = 2
    /\ reporter.frame_stats[2].frame_number = 2

====
